---- MODULE Spec2Model ----
(***************************************************************************)
(* Rules engine of the phase/rummy card game: the deck manager, the meld   *)
(* validator, the turn state machine and the round/score controller of    *)
(* App.tsx (src/unnamed/part_000) and gameUtils.ts (src/unnamed/part_003), *)
(* as run by the authoritative instance (the host, or the single local     *)
(* instance).                                                              *)
(*                                                                         *)
(* Every handler of the component reads the state of the render that       *)
(* created it (its closure) and queues setX(...) calls; the last call for  *)
(* a field wins when the batch commits.  Each handler is therefore an      *)
(* operator from a state record s (the closure) to the committed record.   *)
(* Indices are 0-based as in the source; Seq positions are index + 1.      *)
(*                                                                         *)
(* The peer-to-peer transport is a reliable ordered channel: an ACTION     *)
(* message that arrives is handed to processHostAction, which reads the    *)
(* host's state at that moment.  A client sends its own player id.         *)
(***************************************************************************)
EXTENDS Integers, Sequences, FiniteSets, TLC

(* ------------------------------ bounds -------------------------------- *)
\* Scaled deck and hand (src: 4 colours, 2 sets, values 1..12, 8 wilds,
\* 4 skips, hand of 10).  The value range keeps the top NumValues values
\* of 1..MAX_VALUE so that both scoring classes (>= 10 and < 10) occur.
NumColors == 2
NumSets == 1
NumValues == 5
NumWilds == 3
NumSkips == 1
HAND_SIZE == 3
\* Bot melds need a hand of at least this many cards (src: 6, for hands of 10).
BotMeldMinHand == 3
\* Number of random streams explored for Math.random in shuffleDeck.
NumShuffles == 2
\* Number of connected clients in a hosted game.
NumClients == 1
\* Number of connected clients in the hosted game of SpecRoom.
RoomClients == 2
\* Seconds of a turn when the turn timer is on (src: 15, 30 or 60).
TurnSeconds == 1
\* Handler runs that change the state explored in one game.
MaxSteps == 7
\* Hand reorders (drags, sorts, REORDER messages) explored in one game.
MaxReorders == 1
\* STATE_UPDATE messages on their way to a client at one time.
MaxInFlight == 4
\* Handler runs of the host explored in a room seen from a client.
ClientSteps == 5
\* Cards of one selection and the largest count of a requirement that the
\* meld validator is run on by itself.
MaxSelected == 4
MaxRequired == 3
\* The same for the calls with a single requirement.
MaxGroup == 6
MaxGroupRequired == 7
\* Random streams explored for the shuffle of the deck of the source.
NumDeckShuffles == 120

(* ------------------------- program constants -------------------------- *)
MAX_VALUE == 12
MAX_PLAYERS == 4
WILD_SCORE == 25
SKIP_SCORE == 15
HIGH_SCORE == 10
LOW_SCORE == 5
HIGH_VALUE == 10

ALL_COLORS == <<"RED", "BLUE", "GREEN", "YELLOW">>
COLORS == [i \in 1..NumColors |-> ALL_COLORS[((i - 1) % 4) + 1]]

Min(a, b) == IF a < b THEN a ELSE b

(* ---------------------------- Deck Manager ---------------------------- *)
NumberCard(id, color, val) ==
    [id |-> id, type |-> "NUMBER", color |-> color, value |-> val]
WildCard(id) == [id |-> id, type |-> "WILD", color |-> "WILD", value |-> WILD_SCORE]
SkipCard(id) == [id |-> id, type |-> "SKIP", color |-> "SKIP", value |-> SKIP_SCORE]

NumNumbers == NumColors * NumSets * NumValues
DeckSize == NumNumbers + NumWilds + NumSkips

\* createDeck whose second loop starts each set one value late.
createDeckOf_shortSets(colors, nSets, nValues, nWilds, nSkips) ==
    LET perSet == nValues - 1
        nNumbers == Len(colors) * nSets * perSet
    IN [k \in 1..(nNumbers + nWilds + nSkips) |->
           LET id == k - 1 IN
           IF id < nNumbers
             THEN NumberCard(id,
                             colors[(id \div (nSets * perSet)) + 1],
                             (MAX_VALUE - perSet + 1) + (id % perSet))
           ELSE IF id < nNumbers + nWilds THEN WildCard(id)
           ELSE SkipCard(id)]

\* createDeck for the given colours, sets per colour, values per set (the
\* top nValues of 1..MAX_VALUE), wilds and skips.  Ids count up from 0 in
\* push order: per colour, per set, per value ascending; then the wilds;
\* then the skips.
createDeckOf(colors, nSets, nValues, nWilds, nSkips) ==
    LET nNumbers == Len(colors) * nSets * nValues
    IN [k \in 1..(nNumbers + nWilds + nSkips) |->
           LET id == k - 1 IN
           IF id < nNumbers
             THEN NumberCard(id,
                             colors[(id \div (nSets * nValues)) + 1],
                             (MAX_VALUE - nValues + 1) + (id % nValues))
           ELSE IF id < nNumbers + nWilds THEN WildCard(id)
           ELSE SkipCard(id)]

\* createDeck of the scaled game.
createDeck == createDeckOf(COLORS, NumSets, NumValues, NumWilds, NumSkips)

\* createDeck as the source has it.
SETS_PER_COLOR == 2
WILD_COUNT == 8
SKIP_COUNT == 4
SourceDeck == createDeckOf(ALL_COLORS, SETS_PER_COLOR, MAX_VALUE, WILD_COUNT, SKIP_COUNT)

\* Math.floor(Math.random() * (i + 1)) for random stream r at loop index i:
\* stream 1 never moves a card, stream r swaps with the card r-1 places down.
RandomIndex(r, i) == (i * r) % (i + 1)

Swap(seq, a, b) == [seq EXCEPT ![a] = seq[b], ![b] = seq[a]]

\* The passes i = hi, hi-1, .., lo of the loop, in that order, on the array
\* seq: the upper half of the passes, then the lower half on what they
\* leave.  A swap keeps the length of the array, so the test on the lengths
\* always succeeds: it only makes the upper passes evaluated before the
\* lower ones start, as the loop of the source does.
RECURSIVE ShufflePasses(_, _, _, _)
ShufflePasses(seq, hi, lo, r) ==
    IF hi < lo THEN seq
    ELSE IF hi = lo THEN Swap(seq, hi + 1, RandomIndex(r, hi) + 1)
    ELSE LET mid == (hi + lo) \div 2
             upper == ShufflePasses(seq, hi, mid + 1, r)
         IN IF Len(upper) = Len(seq) THEN ShufflePasses(upper, mid, lo, r) ELSE seq

\* The loop from index i down to 1.
FisherYates(seq, i, r) == ShufflePasses(seq, i, 1, r)

\* shuffleDeck under random stream r (0-based loop index i = length-1 .. 1).
shuffleDeck(deck, r) == FisherYates(deck, Len(deck) - 1, r)

Pop(seq) == SubSeq(seq, 1, Len(seq) - 1)
Top(seq) == seq[Len(seq)]

\* dealCards: handSize rounds, one card per player per round, popped from
\* the end of the deck while it has cards.
RECURSIVE DealLoop(_, _, _, _, _)
DealLoop(hands, deck, k, playerCount, total) ==
    IF k >= total THEN [hands |-> hands, remainingDeck |-> deck]
    ELSE IF Len(deck) > 0
      THEN DealLoop([hands EXCEPT ![(k % playerCount) + 1] = Append(@, Top(deck))],
                    Pop(deck), k + 1, playerCount, total)
      ELSE DealLoop(hands, deck, k + 1, playerCount, total)

dealCards(deck, playerCount, handSize) ==
    DealLoop([p \in 1..playerCount |-> <<>>], deck, 0, playerCount,
             playerCount * handSize)

\* Array.prototype.sort((a, b) => cmp) is stable: insertion from the left,
\* an element goes after every element that does not compare greater.
\* Before(a, b, ord): a must come strictly before b under comparator ord.
ColorRank(color) ==
    CASE color = "BLUE" -> 1 [] color = "GREEN" -> 2 [] color = "RED" -> 3
      [] color = "SKIP" -> 4 [] color = "WILD" -> 5 [] color = "YELLOW" -> 6
      [] OTHER -> 0

Before(a, b, ord) ==
    CASE ord = "valueAsc" -> a.value < b.value
      [] ord = "valueDesc" -> a.value > b.value
      [] ord = "colorValue" ->
            IF a.color = b.color THEN a.value < b.value
            ELSE ColorRank(a.color) < ColorRank(b.color)
      [] OTHER -> FALSE

RECURSIVE Insert(_, _, _)
Insert(sorted, c, ord) ==
    IF sorted = <<>> THEN <<c>>
    ELSE IF Before(c, Top(sorted), ord)
      THEN Append(Insert(Pop(sorted), c, ord), Top(sorted))
      ELSE Append(sorted, c)

RECURSIVE Sort(_, _)
Sort(seq, ord) ==
    IF seq = <<>> THEN <<>>
    ELSE Insert(Sort(Pop(seq), ord), Top(seq), ord)

(* --------------------------- Meld Validator --------------------------- *)
OfType(cards, t) == SelectSeq(cards, LAMBDA c : c.type = t)

\* isValidSet that takes the value to match from the first card selected.
isValidSet_firstCard(cards, requiredCount) ==
    IF Len(cards) < requiredCount THEN FALSE
    ELSE LET naturalCards == OfType(cards, "NUMBER")
             wilds == OfType(cards, "WILD")
         IN IF Len(naturalCards) = 0 THEN TRUE
            ELSE (\A i \in 1..Len(naturalCards) :
                      naturalCards[i].value = cards[1].value)
                 /\ Len(naturalCards) + Len(wilds) >= requiredCount

\* isValidSet: NUMBER cards all of one value; wilds pad; other cards only
\* count towards the length.
isValidSet(cards, requiredCount) ==
    IF Len(cards) < requiredCount THEN FALSE
    ELSE LET naturalCards == OfType(cards, "NUMBER")
             wilds == OfType(cards, "WILD")
         IN IF Len(naturalCards) = 0 THEN TRUE
            ELSE (\A i \in 1..Len(naturalCards) :
                      naturalCards[i].value = naturalCards[1].value)
                 /\ Len(naturalCards) + Len(wilds) >= requiredCount

\* isValidColor: NUMBER and SKIP cards all of one colour; wilds pad.
isValidColor(cards, requiredCount) ==
    IF Len(cards) < requiredCount THEN FALSE
    ELSE LET naturalCards ==
                 SelectSeq(cards, LAMBDA c : c.type = "NUMBER" \/ c.type = "SKIP")
             wilds == OfType(cards, "WILD")
         IN IF Len(naturalCards) = 0 THEN TRUE
            ELSE (\A i \in 1..Len(naturalCards) :
                      naturalCards[i].color = naturalCards[1].color)
                 /\ Len(naturalCards) + Len(wilds) >= requiredCount

\* The gap loop of isValidRun over the sorted NUMBER cards: the wilds needed
\* so far, or -1 once two adjacent cards have the same value.
RECURSIVE NeededWilds(_, _, _)
NeededWilds(naturalCards, i, acc) ==
    IF i >= Len(naturalCards) THEN acc
    ELSE LET diff == naturalCards[i + 1].value - naturalCards[i].value
         IN IF diff = 0 THEN 0 - 1
            ELSE NeededWilds(naturalCards, i + 1,
                             IF diff > 1 THEN acc + (diff - 1) ELSE acc)

\* isValidRun without its test of the length.
isValidRun_anyLength(cards, requiredCount) ==
    LET naturalCards == Sort(OfType(cards, "NUMBER"), "valueAsc")
        wildCount == Len(OfType(cards, "WILD"))
    IN IF Len(naturalCards) = 0 THEN TRUE
       ELSE LET neededWilds == NeededWilds(naturalCards, 1, 0)
            IN neededWilds >= 0 /\ wildCount >= neededWilds

isValidRun(cards, requiredCount) ==
    IF Len(cards) < requiredCount THEN FALSE
    ELSE LET naturalCards == Sort(OfType(cards, "NUMBER"), "valueAsc")
             wildCount == Len(OfType(cards, "WILD"))
         IN IF Len(naturalCards) = 0 THEN TRUE
            ELSE LET neededWilds == NeededWilds(naturalCards, 1, 0)
                 IN neededWilds >= 0 /\ wildCount >= neededWilds

checkSingleReq(cards, req) ==
    CASE req.type = "SET" -> isValidSet(cards, req.count)
      [] req.type = "COLOR" -> isValidColor(cards, req.count)
      [] req.type = "RUN" -> isValidRun(cards, req.count)
      [] OTHER -> FALSE

RECURSIVE Pow2(_)
Pow2(n) == IF n = 0 THEN 1 ELSE 2 * Pow2(n - 1)

\* (i >> j) & 1
Bit(i, j) == (i \div Pow2(j)) % 2

\* group1 / group2 of split i: the cards whose bit is set / is not set.
Group(cards, i, b) ==
    LET idx == {j \in 1..Len(cards) : Bit(i, j - 1) = b}
        RECURSIVE Take(_)
        Take(j) == IF j > Len(cards) THEN <<>>
                   ELSE IF j \in idx THEN <<cards[j]>> \o Take(j + 1)
                   ELSE Take(j + 1)
    IN Take(1)

\* validatePhaseHand that tries each split in one assignment only.
validatePhaseHand_oneOrder(selectedCards, requirements) ==
    LET cards == selectedCards
        n == Len(cards)
    IN IF Len(requirements) = 1
         THEN LET valid == checkSingleReq(cards, requirements[1])
              IN [valid |-> valid, groups |-> IF valid THEN <<cards>> ELSE <<>>]
       ELSE LET check1(i) == checkSingleReq(Group(cards, i, 1), requirements[1])
                             /\ checkSingleReq(Group(cards, i, 0), requirements[2])
                hits == {i \in 1..(Pow2(n) - 2) : check1(i)}
            IN IF hits = {} THEN [valid |-> FALSE, groups |-> <<>>]
               ELSE LET i == CHOOSE x \in hits : \A y \in hits : x <= y
                    IN [valid |-> TRUE,
                        groups |-> <<Group(cards, i, 1), Group(cards, i, 0)>>]

\* validatePhaseHand: {valid, groups}; groups is <<>> when not valid.
validatePhaseHand(selectedCards, requirements) ==
    LET cards == selectedCards
        n == Len(cards)
    IN IF Len(requirements) = 1
         THEN LET valid == checkSingleReq(cards, requirements[1])
              IN [valid |-> valid, groups |-> IF valid THEN <<cards>> ELSE <<>>]
       ELSE IF Len(requirements) = 2
         THEN LET check1(i) == checkSingleReq(Group(cards, i, 1), requirements[1])
                               /\ checkSingleReq(Group(cards, i, 0), requirements[2])
                  check2(i) == checkSingleReq(Group(cards, i, 0), requirements[1])
                               /\ checkSingleReq(Group(cards, i, 1), requirements[2])
                  hits == {i \in 1..(Pow2(n) - 2) : check1(i) \/ check2(i)}
              IN IF hits = {} THEN [valid |-> FALSE, groups |-> <<>>]
                 ELSE LET i == CHOOSE x \in hits : \A y \in hits : x <= y
                      IN [valid |-> TRUE,
                          groups |-> IF check1(i)
                                       THEN <<Group(cards, i, 1), Group(cards, i, 0)>>
                                       ELSE <<Group(cards, i, 0), Group(cards, i, 1)>>]
       ELSE [valid |-> FALSE, groups |-> <<>>]

\* canAddToMeld that asks for one card more than the meld holds.
canAddToMeld_strict(card, meld) ==
    IF card.type = "SKIP" THEN FALSE
    ELSE LET newGroup == Append(meld.cards, card)
         IN CASE meld.type = "SET" -> isValidSet(newGroup, Len(meld.cards) + 2)
              [] meld.type = "COLOR" -> isValidColor(newGroup, Len(meld.cards) + 2)
              [] meld.type = "RUN" -> isValidRun(newGroup, Len(meld.cards) + 2)
              [] OTHER -> FALSE

\* canAddToMeld: never a SKIP; otherwise the whole new group under the
\* meld's kind, with the meld's current size as the required count.
canAddToMeld(card, meld) ==
    IF card.type = "SKIP" THEN FALSE
    ELSE LET newGroup == Append(meld.cards, card)
         IN CASE meld.type = "SET" -> isValidSet(newGroup, Len(meld.cards))
              [] meld.type = "COLOR" -> isValidColor(newGroup, Len(meld.cards))
              [] meld.type = "RUN" -> isValidRun(newGroup, Len(meld.cards))
              [] OTHER -> FALSE

(* ------------------------------ Scoring ------------------------------ *)
\* CardScore that scores every number card alike.
CardScore_flatNumbers(card) ==
    IF card.type = "WILD" THEN WILD_SCORE
    ELSE IF card.type = "SKIP" THEN SKIP_SCORE
    ELSE LOW_SCORE

CardScore(card) ==
    IF card.type = "WILD" THEN WILD_SCORE
    ELSE IF card.type = "SKIP" THEN SKIP_SCORE
    ELSE IF card.value >= HIGH_VALUE THEN HIGH_SCORE
    ELSE LOW_SCORE

RECURSIVE calculateScore(_)
calculateScore(hand) ==
    IF hand = <<>> THEN 0
    ELSE calculateScore(Pop(hand)) + CardScore(Top(hand))

(* ------------------------------- State ------------------------------- *)
VARIABLES
    gameState,            \* LOBBY | PLAYING | ROUND_OVER | GAME_OVER
    players,              \* Seq of Player records
    deck,                 \* Seq of cards, top = last
    discardPile,          \* Seq of cards, top = last
    currentPlayerIndex,   \* 0-based
    turnPhase,            \* DRAW | ACTION | DISCARD
    roundWinnerId,        \* a player id, or "null"
    timeLeft,             \* countdown shown and driven by this instance
    isMultiplayer,        \* the Multiplayer tab of the lobby is chosen
    isHost,               \* this instance created the room
    host,                 \* on a client: the state of the host it joined
    toClient,             \* on a client: STATE_UPDATE messages on their way
    validated,            \* a call of validatePhaseHand: its arguments and result
    connectedClients,     \* peer ids of the clients that joined, in join order
    turnDuration,         \* 0: no turn timer
    now,                  \* Date.now(), read when meld ids are made
    steps,                \* state-changing handler runs so far (bound)
    reorders              \* REORDER messages applied so far (bound)

gameVars == <<gameState, players, deck, discardPile, currentPlayerIndex,
              turnPhase, roundWinnerId, timeLeft>>
vars == <<gameState, players, deck, discardPile, currentPlayerIndex,
          turnPhase, roundWinnerId, timeLeft, isMultiplayer, isHost, host, validated,
          toClient, connectedClients, turnDuration, now, steps, reorders>>

\* The scaled phase list (src STANDARD_PHASES: ten phases of 6 to 9 cards).
STANDARD_PHASES ==
    << [requirements |-> << [type |-> "SET", count |-> 2] >>],
       [requirements |-> << [type |-> "SET", count |-> 2],
                            [type |-> "RUN", count |-> 2] >>],
       [requirements |-> << [type |-> "COLOR", count |-> 3] >>] >>
phases == STANDARD_PHASES

\* myPlayerIdRef of an instance with closure s: 'p1' initially, 'host' after
\* createRoom, the client's own id (p-<time> in the source) after joinRoom.
MyId(s) == IF s.isHost THEN "host" ELSE IF s.isMultiplayer THEN "c1" ELSE "p1"

\* Player ids: the clients' own ids (p-<time> in the source) and bot-<i>.
CLIENT_IDS == <<"c1", "c2", "c3", "c4", "c5">>
BOT_IDS == <<"bot-0", "bot-1", "bot-2">>
ClientId(i) == CLIENT_IDS[i]
BotId(i) == BOT_IDS[i + 1]

\* The state a handler's closure holds: the fields of one render.  The
\* notification banner is written by the handlers and read by none of them:
\* it is "" in the closure and holds the notice of the run in the batch.
\* outbox likewise holds the ACTION messages the run sends to the host.
St == [gameState |-> gameState, players |-> players, deck |-> deck,
       discardPile |-> discardPile, currentPlayerIndex |-> currentPlayerIndex,
       turnPhase |-> turnPhase, roundWinnerId |-> roundWinnerId,
       timeLeft |-> timeLeft, isMultiplayer |-> isMultiplayer,
       isHost |-> isHost, phases |-> phases,
       connectedClients |-> connectedClients, turnDuration |-> turnDuration,
       notification |-> "", outbox |-> <<>>]
myPlayerId == MyId(St)

\* A batch of queued setX calls: the values set so far over the closure s.
Upd(s) == [st |-> s, set |-> {}]
Set(u, f, v) == [st |-> [u.st EXCEPT ![f] = v], set |-> u.set \cup {f}]
\* setNotification(text)
Notify(u, text) == Set(u, "notification", text)
\* An ACTION payload (NetworkActionPayload); absent fields hold NoCard, {},
\* NoMeld, 0.
NoCard == 0 - 2
NoMeld == [kind |-> "none", owner |-> "", t |-> 0, idx |-> 0]
Action(kind, id) ==
    [action |-> kind, playerId |-> id, fromDiscard |-> FALSE, cardId |-> NoCard,
     cardIds |-> {}, meldId |-> NoMeld, fromIndex |-> 0, toIndex |-> 0]
\* sendClientAction(action): the message carries the sender's own id.
sendClientAction(u, action) ==
    Set(u, "outbox",
        Append(u.st.outbox, [type |-> "ACTION",
                             payload |-> [action EXCEPT !.playerId = MyId(u.st)]]))
\* isMultiplayer && !isHost: the closure is a client's.
IsClient(s) == s.isMultiplayer /\ ~s.isHost

\* The hole a splice of a missing element leaves in a hand (undefined).
UNDEF == [id |-> 0 - 1, type |-> "undefined", color |-> "undefined", value |-> 0]
HasHole(hand) == \E i \in 1..Len(hand) : hand[i] = UNDEF

WithoutId(cards, id) == SelectSeq(cards, LAMBDA c : c.id # id)
CurrentPlayer(s) == s.players[s.currentPlayerIndex + 1]
\* players.findIndex(p => p.id === id), 0-based, -1 when absent
FindIndex(ps, id) ==
    IF \E i \in 1..Len(ps) : ps[i].id = id
      THEN (CHOOSE i \in 1..Len(ps) :
                ps[i].id = id /\ \A j \in 1..(i - 1) : ps[j].id # id) - 1
      ELSE 0 - 1
HandHas(hand, id) == \E i \in 1..Len(hand) : hand[i].id = id
CardById(hand, id) == hand[CHOOSE i \in 1..Len(hand) : hand[i].id = id]

(* ----------------------- Round/Score Controller ----------------------- *)
\* endRound reads the closure's players, not the players queued before it.
\* calculateScore reads card.type of every entry: on a hole it throws after
\* the winner and the game state are set and before the players are.
endRound(s, u, winnerId) ==
    LET u0 == Set(Set(u, "roundWinnerId", winnerId), "gameState", "ROUND_OVER")
        updatedPlayers ==
            [i \in 1..Len(s.players) |->
                LET p == s.players[i] IN
                IF p.id = winnerId THEN p
                ELSE [p EXCEPT !.score = p.score + calculateScore(p.hand)]]
        finalPlayers ==
            [i \in 1..Len(updatedPlayers) |->
                LET p == updatedPlayers[i] IN
                [p EXCEPT !.phaseIndex =
                    IF p.hasLaidDownPhase
                      THEN Min(p.phaseIndex + 1, Len(phases) - 1)
                      ELSE p.phaseIndex]]
    IN IF \E i \in 1..Len(s.players) :
              s.players[i].id # winnerId /\ HasHole(s.players[i].hand)
         THEN u0
         ELSE Set(u0, "players", finalPlayers)

(* ------------------------- Turn State Machine ------------------------- *)
\* performDiscard without the round-end check: the turn always moves on.
performDiscard_noRoundEnd(s, u, player, cardToDiscard) ==
    IF HasHole(player.hand) THEN u
    ELSE
    LET newHand == WithoutId(player.hand, cardToDiscard.id)
        cpi == s.currentPlayerIndex
        n == Len(s.players)
        newPlayers == [s.players EXCEPT ![cpi + 1] = [player EXCEPT !.hand = newHand]]
        next1 == (cpi + 1) % n
        isSkip == cardToDiscard.type = "SKIP"
    IN Set(Set(Set(Set(u, "discardPile", Append(s.discardPile, cardToDiscard)),
                   "players", IF isSkip
                                THEN [newPlayers EXCEPT ![next1 + 1].isSkipped = TRUE]
                                ELSE newPlayers),
               "currentPlayerIndex", IF isSkip THEN (next1 + 1) % n ELSE next1),
           "turnPhase", "DRAW")

\* performDiscard that marks the next player skipped but hands it the turn.
performDiscard_skipNotApplied(s, u, player, cardToDiscard) ==
    IF HasHole(player.hand) THEN u
    ELSE
    LET newHand == WithoutId(player.hand, cardToDiscard.id)
        cpi == s.currentPlayerIndex
        n == Len(s.players)
        newPlayers == [s.players EXCEPT ![cpi + 1] = [player EXCEPT !.hand = newHand]]
        u1 == Set(Set(u, "discardPile", Append(s.discardPile, cardToDiscard)),
                  "players", newPlayers)
        next1 == (cpi + 1) % n
    IN IF Len(newHand) = 0 THEN endRound(s, u1, player.id)
       ELSE Set(Set(Set(u1, "players",
                        IF cardToDiscard.type = "SKIP"
                          THEN [newPlayers EXCEPT ![next1 + 1].isSkipped = TRUE]
                          ELSE newPlayers),
                    "currentPlayerIndex", next1),
                "turnPhase", "DRAW")

\* performDiscard that takes the card out of the hand and puts it nowhere.
performDiscard_cardLost(s, u, player, cardToDiscard) ==
    IF HasHole(player.hand) THEN u
    ELSE
    LET newHand == WithoutId(player.hand, cardToDiscard.id)
        cpi == s.currentPlayerIndex
        n == Len(s.players)
        newPlayers == [s.players EXCEPT ![cpi + 1] = [player EXCEPT !.hand = newHand]]
        u1 == Set(u, "players", newPlayers)
        next1 == (cpi + 1) % n
        isSkip == cardToDiscard.type = "SKIP"
    IN IF Len(newHand) = 0 THEN endRound(s, u1, player.id)
       ELSE Set(Set(Set(u1, "players",
                        IF isSkip
                          THEN [newPlayers EXCEPT ![next1 + 1].isSkipped = TRUE]
                          ELSE newPlayers),
                    "currentPlayerIndex", IF isSkip THEN (next1 + 1) % n ELSE next1),
                "turnPhase", "DRAW")

\* performDiscard(player, cardToDiscard) in closure s after the sets in u.
\* player.hand.filter reads c.id of every entry: it throws on a hole and
\* nothing more is set.
performDiscard(s, u, player, cardToDiscard) ==
    IF HasHole(player.hand) THEN u
    ELSE
    LET newHand == WithoutId(player.hand, cardToDiscard.id)
        newDiscard == Append(s.discardPile, cardToDiscard)
        cpi == s.currentPlayerIndex
        n == Len(s.players)
        newPlayers == [s.players EXCEPT ![cpi + 1] = [player EXCEPT !.hand = newHand]]
        u1 == Set(Set(u, "discardPile", newDiscard), "players", newPlayers)
    IN IF Len(newHand) = 0 THEN endRound(s, u1, player.id)
       ELSE LET next1 == (cpi + 1) % n
                isSkip == cardToDiscard.type = "SKIP"
                nextIndex == IF isSkip THEN (next1 + 1) % n ELSE next1
                \* skippedPlayer.isSkipped = true mutates newPlayers[nextIndex]
                marked == IF isSkip
                            THEN [newPlayers EXCEPT ![next1 + 1].isSkipped = TRUE]
                            ELSE newPlayers
                u2 == IF isSkip THEN Notify(u1, "was skipped!") ELSE u1
            IN Set(Set(Set(u2, "players", marked),
                       "currentPlayerIndex", nextIndex),
                   "turnPhase", "DRAW")

\* handleDraw that takes whatever card is on top of the discard pile.
handleDraw_skipAllowed(s, u, fromDiscard, r) ==
    LET player == CurrentPlayer(s) IN
    IF ~player.isHuman /\ s.timeLeft > 0 /\ ~s.isMultiplayer THEN u
    ELSE IF fromDiscard /\ Len(s.discardPile) = 0 THEN u
    ELSE IF ~fromDiscard /\ Len(s.deck) = 0 /\ Len(s.discardPile) <= 1
      THEN Notify(u, "Deck empty and no discard to shuffle. Game Draw.")
    ELSE LET recycle == ~fromDiscard /\ Len(s.deck) = 0
             deck1 == IF recycle THEN shuffleDeck(Pop(s.discardPile), r) ELSE s.deck
             card == IF fromDiscard THEN Top(s.discardPile) ELSE Top(deck1)
         IN Set(Set(Set(Set(u, "deck", IF fromDiscard THEN s.deck ELSE Pop(deck1)),
                        "discardPile", IF fromDiscard THEN Pop(s.discardPile)
                                       ELSE IF recycle THEN <<Top(s.discardPile)>>
                                       ELSE s.discardPile),
                    "players", [s.players EXCEPT
                                  ![s.currentPlayerIndex + 1].hand = Append(@, card)]),
                "turnPhase", "ACTION")

\* handleDraw(fromDiscard) on the authoritative instance; r is the random
\* stream of the shuffle a recycle makes.
handleDraw(s, u, fromDiscard, r) ==
    IF IsClient(s)
      THEN sendClientAction(u, [Action("DRAW", "") EXCEPT !.fromDiscard = fromDiscard])
    ELSE
    LET player == CurrentPlayer(s) IN
    IF ~player.isHuman /\ s.timeLeft > 0 /\ ~s.isMultiplayer THEN u
    ELSE IF fromDiscard
      THEN \* top.type of an empty pile throws; a SKIP on top is refused
           IF Len(s.discardPile) = 0 THEN u
           ELSE IF Top(s.discardPile).type = "SKIP"
             THEN Notify(u, "Cannot pick up a Skip card!")
           ELSE LET card == Top(s.discardPile)
                    newPlayers == [s.players EXCEPT
                                     ![s.currentPlayerIndex + 1].hand = Append(@, card)]
                IN Set(Set(Set(Set(u, "deck", s.deck),
                               "discardPile", Pop(s.discardPile)),
                           "players", newPlayers),
                       "turnPhase", "ACTION")
    ELSE IF Len(s.deck) = 0 /\ Len(s.discardPile) <= 1
      THEN Notify(u, "Deck empty and no discard to shuffle. Game Draw.")
    ELSE LET recycle == Len(s.deck) = 0
             deck1 == IF recycle THEN shuffleDeck(Pop(s.discardPile), r) ELSE s.deck
             newDiscard == IF recycle THEN <<Top(s.discardPile)>> ELSE s.discardPile
             card == Top(deck1)
             newPlayers == [s.players EXCEPT
                              ![s.currentPlayerIndex + 1].hand = Append(@, card)]
         IN Set(Set(Set(Set(u, "deck", Pop(deck1)),
                        "discardPile", newDiscard),
                    "players", newPlayers),
                "turnPhase", "ACTION")

\* startRound that leaves the melds and hasLaidDownPhase of the last round.
startRoundOf_keepsMelds(s, u, currentPlayers, newDeck, handSize) ==
    LET dealt == dealCards(newDeck, Len(currentPlayers), handSize)
        firstDiscard == Top(dealt.remainingDeck)
        remainingDeck == Pop(dealt.remainingDeck)
        updatedPlayers ==
            [i \in 1..Len(currentPlayers) |->
                [currentPlayers[i] EXCEPT
                    !.hand = Sort(dealt.hands[i], "valueAsc"),
                    !.isSkipped = FALSE]]
    IN Set(Notify(Set(Set(Set(Set(Set(Set(Set(u,
         "deck", remainingDeck),
         "discardPile", <<firstDiscard>>),
         "players", updatedPlayers),
         "currentPlayerIndex", 0),
         "turnPhase", "DRAW"),
         "roundWinnerId", "null"),
         "gameState", "PLAYING"),
         "Round Started!"),
         "timeLeft", s.turnDuration)

\* startRound(currentPlayers) from the shuffled deck newDeck with hands of
\* handSize cards.
startRoundOf(s, u, currentPlayers, newDeck, handSize) ==
    LET dealt == dealCards(newDeck, Len(currentPlayers), handSize)
        firstDiscard == Top(dealt.remainingDeck)
        remainingDeck == Pop(dealt.remainingDeck)
        updatedPlayers ==
            [i \in 1..Len(currentPlayers) |->
                [currentPlayers[i] EXCEPT
                    !.hand = Sort(dealt.hands[i], "valueAsc"),
                    !.melds = <<>>,
                    !.hasLaidDownPhase = FALSE,
                    !.isSkipped = FALSE]]
    IN Set(Notify(Set(Set(Set(Set(Set(Set(Set(u,
         "deck", remainingDeck),
         "discardPile", <<firstDiscard>>),
         "players", updatedPlayers),
         "currentPlayerIndex", 0),
         "turnPhase", "DRAW"),
         "roundWinnerId", "null"),
         "gameState", "PLAYING"),
         "Round Started!"),
         "timeLeft", s.turnDuration)

\* startRound(currentPlayers) of the scaled game under random stream r.
startRound(s, u, currentPlayers, r) ==
    startRoundOf(s, u, currentPlayers, shuffleDeck(createDeck, r), HAND_SIZE)

\* startRound(currentPlayers) as the source has it: the deck of createDeck
\* and hands of HAND_SIZE = 10.
SOURCE_HAND_SIZE == 10
SourceRound(s, u, currentPlayers, r) ==
    startRoundOf(s, u, currentPlayers, shuffleDeck(SourceDeck, r), SOURCE_HAND_SIZE)

NewPlayer(id, human) ==
    [id |-> id, isHuman |-> human, hand |-> <<>>, melds |-> <<>>,
     phaseIndex |-> 0, hasLaidDownPhase |-> FALSE, score |-> 0,
     isSkipped |-> FALSE]

\* startGame: this instance's player, the connected clients, then bots up
\* to MAX_PLAYERS.
ActivePlayers(s) ==
    LET humans == IF s.isMultiplayer
                    THEN <<NewPlayer("host", TRUE)>>
                         \o [i \in 1..Len(s.connectedClients) |->
                                NewPlayer(s.connectedClients[i], TRUE)]
                    ELSE <<NewPlayer("p1", TRUE)>>
        neededBots == MAX_PLAYERS - Len(humans)
    IN humans \o [i \in 1..(IF neededBots > 0 THEN neededBots ELSE 0) |->
                     NewPlayer(BotId(i - 1), FALSE)]

startGame(s, u, r) ==
    IF IsClient(s) THEN u
    ELSE startRound(s, Set(u, "players", ActivePlayers(s)), ActivePlayers(s), r)

\* The melds a successful lay-down makes: one per group, typed by the
\* requirement at the same position, ids meld-<Date.now()>-<idx>.
NewMelds(player, groups, requirements, t) ==
    [k \in 1..Len(groups) |->
        [id |-> [kind |-> "meld", owner |-> "", t |-> t, idx |-> k - 1],
         cards |-> groups[k],
         type |-> requirements[k].type,
         ownerId |-> player.id]]

InIds(cards, ids) == SelectSeq(cards, LAMBDA c : c.id \in ids)
NotInIds(cards, ids) == SelectSeq(cards, LAMBDA c : c.id \notin ids)

\* The lay-down that leaves the selected cards in the hand.
LayDown_keepsHand(s, u, playerIndex, player, cardIds, t) ==
    LET currentPhase == phases[player.phaseIndex + 1]
        selectedHand == InIds(player.hand, cardIds)
        validation == validatePhaseHand(selectedHand, currentPhase.requirements)
    IN IF ~HasHole(player.hand) /\ validation.valid
         THEN Set(u, "players",
                  [s.players EXCEPT ![playerIndex + 1] =
                      [player EXCEPT !.melds = player.melds
                                        \o NewMelds(player, validation.groups,
                                                    currentPhase.requirements, t),
                                     !.hasLaidDownPhase = TRUE]])
         ELSE u

\* The lay-down both meld paths share once their own guards have passed.
LayDown(s, u, playerIndex, player, cardIds, t) ==
    IF HasHole(player.hand) THEN u
    ELSE
    LET currentPhase == phases[player.phaseIndex + 1]
        selectedHand == InIds(player.hand, cardIds)
        validation == validatePhaseHand(selectedHand, currentPhase.requirements)
    IN IF validation.valid
         THEN LET newHand == NotInIds(player.hand, cardIds)
                  newMelds == NewMelds(player, validation.groups,
                                       currentPhase.requirements, t)
                  newPlayers == [s.players EXCEPT ![playerIndex + 1] =
                                    [player EXCEPT !.hand = newHand,
                                                   !.melds = player.melds \o newMelds,
                                                   !.hasLaidDownPhase = TRUE]]
              IN Set(u, "players", newPlayers)
         ELSE u

\* handleMeld: the local lay-down of the selected cards.
handleMeld(s, u, selectedCardIds, t) ==
    IF IsClient(s)
      THEN sendClientAction(u, [Action("MELD", "") EXCEPT !.cardIds = selectedCardIds])
    ELSE
    LET player == CurrentPlayer(s) IN
    IF player.hasLaidDownPhase
      THEN Notify(u, "You have already completed your phase this round.")
    ELSE IF HasHole(player.hand) THEN u
    ELSE IF validatePhaseHand(InIds(player.hand, selectedCardIds),
                              phases[player.phaseIndex + 1].requirements).valid
      THEN Notify(LayDown(s, u, s.currentPlayerIndex, player, selectedCardIds, t),
                  "Phase Completed! You can now hit on melds or discard.")
    ELSE Notify(u, "Invalid card combination for this phase.")

AllMelds(ps) ==
    UNION {{ps[i].melds[k] : k \in 1..Len(ps[i].melds)} : i \in 1..Len(ps)}
HasMeld(p, meldId) == \E k \in 1..Len(p.melds) : p.melds[k].id = meldId

\* executeHit(player, card, targetMeldId)
executeHit(s, u, player, card, targetMeldId) ==
    IF ~\E m \in AllMelds(s.players) : m.id = targetMeldId
      THEN Notify(u, "Target phase not found.")
    ELSE
    LET \* players.forEach: the last player holding the id supplies the meld
        owner == CHOOSE i \in 1..Len(s.players) :
                     /\ HasMeld(s.players[i], targetMeldId)
                     /\ \A j \in (i + 1)..Len(s.players) :
                            ~HasMeld(s.players[j], targetMeldId)
        targetMeld == s.players[owner].melds[
                          CHOOSE k \in 1..Len(s.players[owner].melds) :
                              /\ s.players[owner].melds[k].id = targetMeldId
                              /\ \A j \in 1..(k - 1) :
                                     s.players[owner].melds[j].id # targetMeldId]
    IN IF ~canAddToMeld(card, targetMeld)
         THEN Notify(u, "That card doesn't fit in this phase.")
       ELSE IF HasHole(player.hand) THEN u
       ELSE
       LET newHand == WithoutId(player.hand, card.id)
           newPlayers ==
             [i \in 1..Len(s.players) |->
                LET p == s.players[i]
                    p1 == IF p.id = player.id THEN [p EXCEPT !.hand = newHand] ELSE p
                IN IF HasMeld(p, targetMeldId)
                     THEN LET meldIndex == CHOOSE k \in 1..Len(p.melds) :
                                  /\ p.melds[k].id = targetMeldId
                                  /\ \A j \in 1..(k - 1) : p.melds[j].id # targetMeldId
                          IN [p1 EXCEPT !.melds[meldIndex].cards =
                                 Sort(Append(@, card), "valueAsc")]
                     ELSE p1]
           u1 == Notify(Set(u, "players", newPlayers), "Card added to phase!")
       IN IF Len(newHand) = 0 THEN endRound(s, u1, player.id) ELSE u1

\* handleMeldDrop(cardIndex, meldId): the local drop of a hand card on a meld.
handleMeldDrop(s, u, cardIndex, meldId) ==
    LET player == CurrentPlayer(s) IN
    IF cardIndex < 0 \/ cardIndex >= Len(player.hand) THEN u
    ELSE IF IsClient(s)
      THEN \* card.id of an undefined entry throws
           IF player.hand[cardIndex + 1] = UNDEF THEN u
           ELSE sendClientAction(u, [Action("HIT", "") EXCEPT
                                        !.cardId = player.hand[cardIndex + 1].id,
                                        !.meldId = meldId])
    ELSE IF s.turnPhase # "ACTION" \/ ~player.hasLaidDownPhase
      THEN Notify(u, "You must lay down your phase first before hitting.")
    ELSE IF player.hand[cardIndex + 1] = UNDEF THEN u
    ELSE executeHit(s, u, player, player.hand[cardIndex + 1], meldId)

\* handleDiscard: the Discard button with the selection selectedCardIds.
handleDiscard(s, u, selectedCardIds) ==
    LET player == CurrentPlayer(s) IN
    IF IsClient(s)
      THEN IF Cardinality(selectedCardIds) = 1
             THEN sendClientAction(u, [Action("DISCARD", "") EXCEPT
                                          !.cardId = CHOOSE c \in selectedCardIds : TRUE])
             ELSE Notify(u, "Select one card.")
    ELSE IF Cardinality(selectedCardIds) # 1
      THEN Notify(u, "Select exactly one card to discard.")
    ELSE LET cardId == CHOOSE c \in selectedCardIds : TRUE IN
         IF HasHole(player.hand) \/ ~HandHas(player.hand, cardId) THEN u
         ELSE performDiscard(s, u, player, CardById(player.hand, cardId))

\* handleHitMeld(targetMeld): the click on a meld with a selection.
handleHitMeld(s, u, selectedCardIds, targetMeldId) ==
    LET player == CurrentPlayer(s) IN
    IF IsClient(s)
      THEN IF Cardinality(selectedCardIds) = 1
             THEN sendClientAction(u, [Action("HIT", "") EXCEPT
                                          !.cardId = CHOOSE c \in selectedCardIds : TRUE,
                                          !.meldId = targetMeldId])
             ELSE Notify(u, "Select one card.")
    ELSE IF Cardinality(selectedCardIds) # 1
      THEN Notify(u, "Select exactly one card to hit.")
    ELSE LET cardId == CHOOSE c \in selectedCardIds : TRUE IN
         IF HasHole(player.hand) \/ ~HandHas(player.hand, cardId) THEN u
         ELSE executeHit(s, u, player, CardById(player.hand, cardId), targetMeldId)

\* Array.prototype.splice start index: negative counts from the end.
SpliceStart(len, i) ==
    IF i < 0 THEN (IF len + i < 0 THEN 0 ELSE len + i)
    ELSE IF i > len THEN len ELSE i

RemoveAt(seq, i0) == \* 0-based; nothing removed when i0 = Len(seq)
    IF i0 >= Len(seq) THEN seq
    ELSE SubSeq(seq, 1, i0) \o SubSeq(seq, i0 + 2, Len(seq))
InsertAt(seq, i0, x) ==
    SubSeq(seq, 1, i0) \o <<x>> \o SubSeq(seq, i0 + 1, Len(seq))

\* const [moved] = hand.splice(from, 1); hand.splice(to, 0, moved)
MoveCard(hand, fromIndex, toIndex) ==
    LET f == SpliceStart(Len(hand), fromIndex)
        moved == IF f < Len(hand) THEN hand[f + 1] ELSE UNDEF
        rest == RemoveAt(hand, f)
    IN InsertAt(rest, SpliceStart(Len(rest), toIndex), moved)

\* handleReorderHand: the local drag of this instance's own hand.
handleReorderHand(s, u, fromIndex, toIndex) ==
    IF IsClient(s)
      THEN sendClientAction(u, [Action("REORDER", "") EXCEPT
                                   !.fromIndex = fromIndex, !.toIndex = toIndex])
    ELSE
    LET playerIdx == FindIndex(s.players, MyId(s)) IN
    IF playerIdx = 0 - 1 THEN u
    ELSE LET player == s.players[playerIdx + 1] IN
         IF fromIndex < 0 \/ fromIndex >= Len(player.hand)
            \/ toIndex < 0 \/ toIndex >= Len(player.hand) THEN u
         ELSE Set(u, "players",
                  [s.players EXCEPT ![playerIdx + 1].hand =
                      MoveCard(player.hand, fromIndex, toIndex)])

\* sortHand: this instance's own hand by colour, then value.
sortHand(s, u) ==
    LET pIdx == FindIndex(s.players, MyId(s)) IN
    IF pIdx = 0 - 1 THEN u
    ELSE IF IsClient(s)
      THEN Notify(u, "Sorting disabled for clients in this version.")
    ELSE Set(u, "players",
             [s.players EXCEPT ![pIdx + 1].hand = Sort(@, "colorValue")])

\* processHostAction without its turn validation.
processHostAction_anyTurn(s, u, action, t, r) ==
    LET playerIndex == FindIndex(s.players, action.playerId) IN
    IF playerIndex = 0 - 1 THEN u
    ELSE
    LET player == s.players[playerIndex + 1] IN
    CASE action.action = "DRAW" -> handleDraw(s, u, action.fromDiscard, r)
      [] action.action = "DISCARD" ->
            IF ~HasHole(player.hand) /\ HandHas(player.hand, action.cardId)
              THEN performDiscard(s, u, player, CardById(player.hand, action.cardId))
              ELSE u
      [] action.action = "MELD" ->
            LayDown(s, u, playerIndex, player, action.cardIds, t)
      [] action.action = "HIT" ->
            IF ~HasHole(player.hand) /\ HandHas(player.hand, action.cardId)
              THEN executeHit(s, u, player, CardById(player.hand, action.cardId),
                              action.meldId)
              ELSE u
      [] action.action = "REORDER" ->
            Set(u, "players",
                [s.players EXCEPT ![playerIndex + 1].hand =
                    MoveCard(player.hand, action.fromIndex, action.toIndex)])
      [] OTHER -> u

\* processHostAction(action): an ACTION message applied by the host.
processHostAction(s, u, action, t, r) ==
    LET playerIndex == FindIndex(s.players, action.playerId) IN
    IF playerIndex = 0 - 1 THEN u
    ELSE IF playerIndex # s.currentPlayerIndex THEN u
    ELSE
    LET player == s.players[playerIndex + 1] IN
    CASE action.action = "DRAW" -> handleDraw(s, u, action.fromDiscard, r)
      [] action.action = "DISCARD" ->
            IF ~HasHole(player.hand) /\ HandHas(player.hand, action.cardId)
              THEN performDiscard(s, u, player, CardById(player.hand, action.cardId))
              ELSE u
      [] action.action = "MELD" ->
            LayDown(s, u, playerIndex, player, action.cardIds, t)
      [] action.action = "HIT" ->
            IF ~HasHole(player.hand) /\ HandHas(player.hand, action.cardId)
              THEN executeHit(s, u, player, CardById(player.hand, action.cardId),
                              action.meldId)
              ELSE u
      [] action.action = "REORDER" ->
            Set(u, "players",
                [s.players EXCEPT ![playerIndex + 1].hand =
                    MoveCard(player.hand, action.fromIndex, action.toIndex)])
      [] OTHER -> u

\* The card auto-play and bots give up: the highest NUMBER card, else the
\* highest card; <<>> when the hand is empty.
HighestDiscard(hand) ==
    LET sortedHand == Sort(hand, "valueDesc")
        numbers == OfType(sortedHand, "NUMBER")
    IN IF numbers # <<>> THEN <<numbers[1]>>
       ELSE IF sortedHand # <<>> THEN <<sortedHand[1]>>
       ELSE <<>>

\* handleTimeout: the auto-play when the countdown reaches 0.
handleTimeout(s, u, r) ==
    IF s.gameState # "PLAYING" THEN u
    ELSE LET player == CurrentPlayer(s) IN
         IF ~player.isHuman THEN u
         ELSE LET u0 == Notify(u, "Time's up! Auto-playing turn.") IN
              IF s.turnPhase = "DRAW" THEN handleDraw(s, u0, FALSE, r)
              ELSE IF HasHole(player.hand) \/ HighestDiscard(player.hand) = <<>> THEN u0
              ELSE performDiscard(s, u0, player, HighestDiscard(player.hand)[1])

RECURSIVE SumCounts(_)
SumCounts(reqs) == IF reqs = <<>> THEN 0 ELSE SumCounts(Pop(reqs)) + Top(reqs).count

\* botPlayTurn(bot): wantMeld is Math.random() > 0.85.
\* Steps 1 and 2 of botPlayTurn, when the bot can draw: the deck after the
\* draw, whether the bot melds, the cards it melds and the hand it keeps.
BotDrawAndMeld(s, bot, wantMeld, r) ==
    LET recycle == Len(s.deck) = 0
        deck1 == IF recycle THEN shuffleDeck(Pop(s.discardPile), r) ELSE s.deck
        drawnHand == Append(bot.hand, Top(deck1))
        hasMeld == ~bot.hasLaidDownPhase /\ Len(drawnHand) >= BotMeldMinHand /\ wantMeld
        reqCount == SumCounts(phases[bot.phaseIndex + 1].requirements)
        cut == Min(reqCount, Len(drawnHand))
    IN [currentDeck |-> Pop(deck1),
        hasMeld |-> hasMeld,
        meldCards |-> SubSeq(drawnHand, 1, cut),
        currentHand |-> IF hasMeld THEN SubSeq(drawnHand, cut + 1, Len(drawnHand))
                        ELSE drawnHand]

botPlayTurn(s, u, bot, wantMeld, t, r) ==
    IF s.gameState # "PLAYING" THEN u
    ELSE IF Len(s.deck) = 0 /\ Len(s.discardPile) <= 1 THEN u
    ELSE
    LET b == BotDrawAndMeld(s, bot, wantMeld, r)
        currentDeck == b.currentDeck
        u1 == Set(u, "deck", currentDeck)
        hasMeld == b.hasMeld
        meldCards == b.meldCards
        currentHand == b.currentHand
        botMeld == [id |-> [kind |-> "bot-meld", owner |-> bot.id, t |-> t, idx |-> 0],
                    cards |-> meldCards, type |-> "SET", ownerId |-> bot.id]
        botIndex == FindIndex(s.players, bot.id)
        u2 == IF hasMeld
                THEN Set(u1, "players",
                         [s.players EXCEPT ![botIndex + 1] =
                             [bot EXCEPT !.melds = Append(bot.melds, botMeld)]])
                ELSE u1
        botUpdated == [bot EXCEPT !.hand = currentHand,
                                  !.hasLaidDownPhase = bot.hasLaidDownPhase \/ hasMeld]
        discardCard == HighestDiscard(currentHand)
    IN IF discardCard # <<>> THEN performDiscard(s, u2, botUpdated, discardCard[1])
       ELSE u2

\* nextRound that never ends the game.
nextRound_neverOver(s, u, r) ==
    IF s.isMultiplayer /\ ~s.isHost THEN u
    ELSE startRound(s, u, s.players, r)

\* nextRound: the host leaves ROUND_OVER.
nextRound(s, u, r) ==
    IF s.isMultiplayer /\ ~s.isHost THEN u
    ELSE IF \E i \in 1..Len(s.players) :
                /\ s.players[i].phaseIndex = Len(phases) - 1
                /\ s.players[i].hasLaidDownPhase
      THEN Set(u, "gameState", "GAME_OVER")
      ELSE startRound(s, u, s.players, r)

(* ----------------------- Host and client messages ---------------------- *)
Streams == 1..NumShuffles

\* myPlayer and isMyTurn of a render s
MyPlayer(s) == IF FindIndex(s.players, MyId(s)) # 0 - 1
                 THEN s.players[FindIndex(s.players, MyId(s)) + 1]
                 ELSE s.players[1]
IsMyTurn(s) == MyPlayer(s).id = CurrentPlayer(s).id

\* broadcastState(overrideState) of the render s: the STATE_UPDATE messages
\* it sends (none unless isHost).
broadcastState(s, overrideState) ==
    LET payload == [players |-> s.players,
                    deckCount |-> Len(s.deck),
                    discardPile |-> s.discardPile,
                    currentPlayerIndex |-> s.currentPlayerIndex,
                    turnPhase |-> s.turnPhase,
                    gameState |-> s.gameState,
                    phases |-> s.phases,
                    roundWinnerId |-> s.roundWinnerId,
                    timeLeft |-> s.timeLeft]
    IN IF ~s.isHost THEN <<>>
       ELSE << [type |-> "STATE_UPDATE",
                payload |-> [f \in DOMAIN payload |->
                                IF f \in DOMAIN overrideState
                                  THEN overrideState[f] ELSE payload[f]]] >>
NoOverride == [x \in {} |-> 0]

\* Array(deckCount).fill({}): the client's dummy deck
DummyCard == [id |-> 0 - 3, type |-> "none", color |-> "none", value |-> 0]

\* if (data.f ...) setX(data.f): the setter runs when the payload has the
\* field and the test on its value passes; the deck becomes deckCount dummies.
SetField(u, data, f, x, passes) ==
    IF f \in DOMAIN data /\ passes
      THEN Set(u, x, IF f = "deckCount" THEN [i \in 1..data[f] |-> DummyCard]
                     ELSE data[f])
      ELSE u

\* handleNetworkMessage whose client branch keeps the mirror's discard pile
\* when the message carries an empty one.
handleNetworkMessage_keepsPile(s, u, msg, t, r) ==
    IF s.isHost \/ msg.type # "STATE_UPDATE" THEN u
    ELSE
    LET data == msg.payload IN
    SetField(SetField(SetField(SetField(SetField(SetField(SetField(SetField(
    SetField(u,
        data, "gameState", "gameState", data.gameState # ""),
        data, "players", "players", TRUE),
        data, "deckCount", "deck", TRUE),
        data, "discardPile", "discardPile", data.discardPile # <<>>),
        data, "currentPlayerIndex", "currentPlayerIndex", TRUE),
        data, "turnPhase", "turnPhase", data.turnPhase # ""),
        data, "phases", "phases", TRUE),
        data, "roundWinnerId", "roundWinnerId", TRUE),
        data, "timeLeft", "timeLeft", TRUE)

\* handleNetworkMessage(msg) with the closure s of the render that registered
\* it.  A field the payload lacks is undefined.
handleNetworkMessage(s, u, msg, t, r) ==
    IF s.isHost
      THEN IF msg.type = "PLAYER_JOINED"
             THEN LET joined == Append(u.st.connectedClients, msg.payload.playerId)
                  IN Set(Set(u, "connectedClients", joined),
                         "outbox",
                         Append(u.st.outbox,
                                [type |-> "STATE_UPDATE",
                                 payload |-> [gameState |-> "LOBBY",
                                              connectedNames |-> joined]]))
           ELSE IF msg.type = "ACTION"
             THEN processHostAction(s, u, msg.payload, t, r)
           ELSE u
    ELSE IF msg.type # "STATE_UPDATE" THEN u
    ELSE
    LET data == msg.payload IN
    SetField(SetField(SetField(SetField(SetField(SetField(SetField(SetField(
    SetField(SetField(u,
        data, "gameState", "gameState", data.gameState # ""),
        data, "players", "players", TRUE),
        data, "deckCount", "deck", TRUE),
        data, "discardPile", "discardPile", TRUE),
        data, "currentPlayerIndex", "currentPlayerIndex", TRUE),
        data, "turnPhase", "turnPhase", data.turnPhase # ""),
        data, "phases", "phases", TRUE),
        data, "roundWinnerId", "roundWinnerId", TRUE),
        data, "timeLeft", "timeLeft", TRUE),
        data, "connectedNames", "connectedClients", s.gameState = "LOBBY")

\* The render a batch leaves: the notice and the sent messages are no part
\* of the next closure.
Rendered(u) == [u.st EXCEPT !.notification = "", !.outbox = <<>>]

\* The effect on [currentPlayerIndex, turnPhase, turnDuration] after the
\* render n that follows the render s: the countdown starts again.
timerReset(s, n) ==
    IF (n.isHost \/ ~n.isMultiplayer)
       /\ (n.currentPlayerIndex # s.currentPlayerIndex \/ n.turnPhase # s.turnPhase)
      THEN [n EXCEPT !.timeLeft = n.turnDuration]
      ELSE n

\* The effect on [players, currentPlayerIndex, turnPhase, gameState,
\* discardPile, roundWinnerId, timeLeft] after the render n that follows
\* the render s; setPlayers and setDiscardPile always pass a new array.
broadcastEffect(s, n, set) ==
    IF /\ n.isHost /\ n.gameState # "LOBBY"
       /\ \/ set \cap {"players", "discardPile"} # {}
          \/ \E f \in {"currentPlayerIndex", "turnPhase", "gameState",
                       "roundWinnerId", "timeLeft"} : n[f] # s[f]
      THEN broadcastState(n, NoOverride)
      ELSE <<>>

\* What a handler run of the host with closure s and batch u leaves: the
\* host's next render h and the messages msgs sent on the way - by the
\* broadcast effect, by the broadcast effect again once the countdown is
\* reset, and by the delayed broadcastState of startRound's closure.
HostCommit(s, u) ==
    LET n == Rendered(u)
        n2 == timerReset(s, n)
        startedRound == "gameState" \in u.set /\ n.gameState = "PLAYING"
    IN [h |-> n2,
        msgs |-> broadcastEffect(s, n, u.set)
                 \o broadcastEffect(n, n2, {})
                 \o (IF startedRound /\ s.isHost
                       THEN broadcastState(s, [gameState |-> "PLAYING",
                                               players |-> n.players,
                                               deckCount |-> Len(n.deck),
                                               discardPile |-> n.discardPile])
                       ELSE <<>>)]

\* The instance has joined no room: there is no remote host.
NoHost == [gameState |-> "none"]
\* validatePhaseHand has not been called by itself.
NoCall == [selectedCards |-> <<>>, requirements |-> <<>>, returned |-> FALSE,
           result |-> [valid |-> FALSE, groups |-> <<>>]]

\* The shuffles a draw of the joined host can make.
HostDrawStreams ==
    IF host # NoHost /\ Len(host.deck) = 0 /\ Len(host.discardPile) > 1
      THEN Streams ELSE {1}

(* ------------------------------ Actions ------------------------------ *)
\* The render n replaces the current one; then the effect on
\* [currentPlayerIndex, turnPhase] resets the countdown.
\* Commit: the batch u commits.  Date.now() moves on once a meld carries it.
Assign(n) ==
    /\ gameState' = n.gameState
    /\ players' = n.players
    /\ deck' = n.deck
    /\ discardPile' = n.discardPile
    /\ currentPlayerIndex' = n.currentPlayerIndex
    /\ turnPhase' = n.turnPhase
    /\ roundWinnerId' = n.roundWinnerId
    /\ timeLeft' = timerReset(St, n).timeLeft
    /\ UNCHANGED <<isMultiplayer, isHost, connectedClients, turnDuration,
                   validated>>

Commit(u) ==
    LET n == Rendered(u)
    IN /\ n # St => steps < MaxSteps
       /\ Assign(n)
       /\ steps' = IF n # St THEN steps + 1 ELSE steps
       /\ now' = IF \E m \in AllMelds(n.players) : m.id.t = now
                   THEN now + 1 ELSE now
       /\ UNCHANGED <<host, toClient>>

\* A draw shuffles only when it recycles the discard pile.
DrawStreams == IF Len(deck) = 0 /\ Len(discardPile) > 1 THEN Streams ELSE {1}

\* myPlayer and isMyTurn of the render
myPlayer == IF FindIndex(players, myPlayerId) # 0 - 1
              THEN players[FindIndex(players, myPlayerId) + 1]
              ELSE players[1]
isMyTurn == myPlayer.id = players[currentPlayerIndex + 1].id
HandIds(hand) == {hand[i].id : i \in 1..Len(hand)} \ {UNDEF.id}

\* The clients whose PLAYER_JOINED the host has handled: the first k ids.
JoinedClients(k) == [i \in 1..k |-> ClientId(i)]

Init ==
    /\ gameState = "LOBBY"
    /\ players = <<>>
    /\ deck = <<>>
    /\ discardPile = <<>>
    /\ currentPlayerIndex = 0
    /\ turnPhase = "DRAW"
    /\ roundWinnerId = "null"
    /\ isMultiplayer \in BOOLEAN
    /\ isHost = isMultiplayer
    /\ host = NoHost
    /\ toClient = <<>>
    /\ validated = NoCall
    /\ connectedClients = IF isMultiplayer THEN JoinedClients(NumClients) ELSE <<>>
    /\ turnDuration = TurnSeconds
    /\ timeLeft = turnDuration
    /\ now = 1
    /\ steps = 0
    /\ reorders = 0

\* "Play Classic" / "Start Game" in the lobby
StartGame ==
    /\ gameState = "LOBBY"
    /\ \E r \in Streams : Commit(startGame(St, Upd(St), r))
    /\ UNCHANGED reorders

\* GameBoard: the draw pile and the discard pile are clickable on this
\* instance's turn in DRAW (the discard pile unless its top is a SKIP).
LocalDraw ==
    /\ gameState = "PLAYING" /\ isMyTurn /\ turnPhase = "DRAW"
    /\ \E fromDiscard \in BOOLEAN, r \in DrawStreams :
          /\ fromDiscard => (discardPile # <<>> /\ Top(discardPile).type # "SKIP")
          /\ Commit(handleDraw(St, Upd(St), fromDiscard, r))
    /\ UNCHANGED reorders

\* handleDiscard with one selected card (canDiscard)
LocalDiscard ==
    /\ gameState = "PLAYING" /\ isMyTurn /\ turnPhase \in {"DISCARD", "ACTION"}
    /\ \E id \in HandIds(myPlayer.hand) : Commit(handleDiscard(St, Upd(St), {id}))
    /\ UNCHANGED reorders

\* handleMeld with a non-empty selection (the Play Phase button)
LocalMeld ==
    /\ gameState = "PLAYING" /\ isMyTurn /\ turnPhase = "ACTION"
    /\ ~myPlayer.hasLaidDownPhase
    /\ \E sel \in SUBSET HandIds(myPlayer.hand) :
          /\ sel # {}
          /\ Commit(handleMeld(St, Upd(St), sel, now))
    /\ UNCHANGED reorders

\* A hand card dropped on a meld shown on the table (canHit); the click on
\* a meld with one card selected (handleHitMeld) makes the same executeHit.
LocalHit ==
    /\ gameState = "PLAYING" /\ isMyTurn /\ turnPhase = "ACTION"
    /\ myPlayer.hasLaidDownPhase
    /\ \E cardIndex \in 0..(Len(myPlayer.hand) - 1), i \in 1..Len(players) :
          /\ players[i].hasLaidDownPhase
          /\ \E k \in 1..Len(players[i].melds) :
                Commit(handleMeldDrop(St, Upd(St), cardIndex, players[i].melds[k].id))
    /\ UNCHANGED reorders

\* A drag of one own card onto another, or the Sort button
LocalReorder ==
    /\ gameState = "PLAYING" /\ reorders < MaxReorders
    /\ \/ \E f \in 0..(Len(myPlayer.hand) - 1), t \in 0..(Len(myPlayer.hand) - 1) :
             f # t /\ Commit(handleReorderHand(St, Upd(St), f, t))
       \/ Commit(sortHand(St, Upd(St)))
    /\ reorders' = reorders + 1

\* The ACTION messages a client may send.  A client sends its own id; one
\* that connected after the game began is no player.
Senders == {connectedClients[i] : i \in 1..Len(connectedClients)} \cup {"late"}
\* The payloads sender id can put in a message: its own cards (or none),
\* any meld on the table (or none), any pair of indices around its hand.
FullPayloads(id) ==
    LET idx == FindIndex(players, id)
        hand == IF idx = 0 - 1 THEN <<>> ELSE players[idx + 1].hand
        ids == HandIds(hand)
        meldIds == {m.id : m \in AllMelds(players)} \cup {NoMeld}
    IN {[Action("DRAW", id) EXCEPT !.fromDiscard = b] : b \in BOOLEAN}
       \cup {[Action("DISCARD", id) EXCEPT !.cardId = c] : c \in ids \cup {NoCard}}
       \cup {[Action("MELD", id) EXCEPT !.cardIds = cs] : cs \in SUBSET ids}
       \cup {[Action("HIT", id) EXCEPT !.cardId = c, !.meldId = m] :
                c \in ids, m \in meldIds}
       \cup {[Action("REORDER", id) EXCEPT !.fromIndex = f, !.toIndex = t] :
                f \in (0 - 1)..Len(hand), t \in (0 - 1)..Len(hand)}

\* Every payload of the sender whose turn it is; one message of each kind
\* from any other sender (the host drops those before reading the payload).
Payloads(id) ==
    IF FindIndex(players, id) # currentPlayerIndex
      THEN {Action(k, id) : k \in {"DRAW", "DISCARD", "MELD", "HIT", "REORDER"}}
      ELSE FullPayloads(id)

\* handleNetworkMessage on the host: an ACTION message is processed.
NetAction ==
    /\ isHost
    /\ \E id \in Senders : \E action \in Payloads(id) : \E r \in DrawStreams :
          /\ (action.action = "REORDER" /\ FindIndex(players, id) = currentPlayerIndex)
                => reorders < MaxReorders
          /\ Commit(processHostAction(St, Upd(St), action, now, r))
          /\ reorders' = IF action.action = "REORDER" /\ players' # players
                           THEN reorders + 1 ELSE reorders

\* One second of the turn timer; at 0 the timeout effect auto-plays.
Tick ==
    /\ gameState = "PLAYING" /\ turnDuration > 0 /\ timeLeft > 0
    /\ LET s1 == [St EXCEPT !.timeLeft = IF timeLeft <= 1 THEN 0 ELSE timeLeft - 1]
       IN IF s1.timeLeft = 0
            THEN \E r \in DrawStreams : Commit(handleTimeout(s1, Upd(s1), r))
            ELSE Commit(Upd(s1))
    /\ UNCHANGED reorders

\* The bot effect's timer fires on a bot's turn.
BotTurn ==
    /\ gameState = "PLAYING"
    /\ ~CurrentPlayer(St).isHuman
    /\ \E wantMeld \in BOOLEAN, r \in DrawStreams :
          Commit(botPlayTurn(St, Upd(St), CurrentPlayer(St), wantMeld, now, r))
    /\ UNCHANGED reorders

\* The Next Round button, shown to the host on the round-over screen.
NextRound ==
    /\ gameState = "ROUND_OVER" /\ isHost
    /\ \E r \in Streams : Commit(nextRound(St, Upd(St), r))
    /\ UNCHANGED reorders

Next ==
    \/ StartGame
    \/ LocalDraw
    \/ LocalDiscard
    \/ LocalMeld
    \/ LocalHit
    \/ LocalReorder
    \/ NetAction
    \/ Tick
    \/ BotTurn
    \/ NextRound

Spec == Init /\ [][Next]_vars

\* A hosted room that RoomClients clients have joined before the game starts.
InitRoom ==
    /\ gameState = "LOBBY"
    /\ players = <<>>
    /\ deck = <<>>
    /\ discardPile = <<>>
    /\ currentPlayerIndex = 0
    /\ turnPhase = "DRAW"
    /\ roundWinnerId = "null"
    /\ isMultiplayer = TRUE
    /\ isHost = TRUE
    /\ host = NoHost
    /\ toClient = <<>>
    /\ validated = NoCall
    /\ connectedClients = JoinedClients(RoomClients)
    /\ turnDuration = TurnSeconds
    /\ timeLeft = turnDuration
    /\ now = 1
    /\ steps = 0
    /\ reorders = 0

SpecRoom == InitRoom /\ [][Next]_vars

(* ------------------------ A client of a room -------------------------- *)
\* The countdown effect's interval: one second passes.
countdown(s, u) ==
    IF (s.isHost \/ ~s.isMultiplayer) /\ s.gameState = "PLAYING" /\ s.turnDuration > 0
      THEN Set(u, "timeLeft", IF s.timeLeft <= 1 THEN 0 ELSE s.timeLeft - 1)
      ELSE u

\* The timeout effect without its test of the role.
timeoutEffect_anyRole(s, u, r) ==
    IF s.gameState = "PLAYING" /\ s.timeLeft = 0 /\ s.turnDuration > 0
      THEN handleTimeout(s, u, r)
      ELSE u

\* The effect on [timeLeft]: the auto-play at 0.
timeoutEffect(s, u, r) ==
    IF /\ (s.isHost \/ ~s.isMultiplayer) /\ s.gameState = "PLAYING"
       /\ s.timeLeft = 0 /\ s.turnDuration > 0
      THEN handleTimeout(s, u, r)
      ELSE u

\* The bot effect, once its timer fires.
botEffect(s, u, wantMeld, t, r) ==
    IF s.gameState # "PLAYING" THEN u
    ELSE IF IsClient(s) THEN u
    ELSE IF ~CurrentPlayer(s).isHuman
      THEN botPlayTurn(s, u, CurrentPlayer(s), wantMeld, t, r)
    ELSE u

\* The host of the room in its lobby, after the client has joined.
HostLobby ==
    [gameState |-> "LOBBY", players |-> <<>>, deck |-> <<>>, discardPile |-> <<>>,
     currentPlayerIndex |-> 0, turnPhase |-> "DRAW", roundWinnerId |-> "null",
     timeLeft |-> TurnSeconds, isMultiplayer |-> TRUE, isHost |-> TRUE,
     phases |-> STANDARD_PHASES, connectedClients |-> JoinedClients(NumClients),
     turnDuration |-> TurnSeconds, notification |-> "", outbox |-> <<>>]

\* The instance has joined the room of HostLobby; nothing has been sent yet.
\* The host's handler runs are counted from MaxSteps - ClientSteps.
InitClient ==
    /\ gameState = "LOBBY"
    /\ players = <<>>
    /\ deck = <<>>
    /\ discardPile = <<>>
    /\ currentPlayerIndex = 0
    /\ turnPhase = "DRAW"
    /\ roundWinnerId = "null"
    /\ isMultiplayer = TRUE
    /\ isHost = FALSE
    /\ host = HostLobby
    /\ toClient = <<>>
    /\ validated = NoCall
    /\ connectedClients = <<>>
    /\ turnDuration = TurnSeconds
    /\ timeLeft = turnDuration
    /\ now = 1
    /\ steps = MaxSteps - ClientSteps
    /\ reorders = 0

\* A handler run of the joined host, with closure s and batch u, after it
\* has sent the messages pre: the host's render and the messages in flight.
HostStep(s, u, pre) ==
    \E c \in {HostCommit(s, u)} :
    /\ steps < MaxSteps
    /\ toClient = <<>>
    /\ c.h # host
    /\ host' = c.h
    /\ toClient' = pre \o c.msgs
    /\ steps' = steps + 1
    /\ now' = IF \E m \in AllMelds(c.h.players) : m.id.t = now THEN now + 1 ELSE now
    /\ UNCHANGED <<gameVars, isMultiplayer, isHost, connectedClients, turnDuration,
                   reorders, validated>>

\* The host starts the game.
HostStartGame ==
    /\ host.gameState = "LOBBY"
    /\ \E r \in Streams : HostStep(host, startGame(host, Upd(host), r), <<>>)

\* The host plays its own turn: a draw, a lay-down, a hit or a discard.
HostPlays ==
    /\ host.gameState = "PLAYING" /\ IsMyTurn(host)
    /\ LET me == MyPlayer(host) IN
       \/ /\ host.turnPhase = "DRAW"
          /\ \E fromDiscard \in BOOLEAN, r \in HostDrawStreams :
                /\ fromDiscard => (host.discardPile # <<>>
                                   /\ Top(host.discardPile).type # "SKIP")
                /\ HostStep(host, handleDraw(host, Upd(host), fromDiscard, r), <<>>)
       \/ /\ host.turnPhase = "ACTION" /\ ~me.hasLaidDownPhase
          /\ \E sel \in SUBSET HandIds(me.hand) :
                sel # {} /\ HostStep(host, handleMeld(host, Upd(host), sel, now), <<>>)
       \/ /\ host.turnPhase = "ACTION" /\ me.hasLaidDownPhase
          /\ \E cardIndex \in 0..(Len(me.hand) - 1), m \in AllMelds(host.players) :
                HostStep(host, handleMeldDrop(host, Upd(host), cardIndex, m.id), <<>>)
       \/ /\ host.turnPhase \in {"DISCARD", "ACTION"}
          /\ \E id \in HandIds(me.hand) :
                HostStep(host, handleDiscard(host, Upd(host), {id}), <<>>)

\* One second passes on the host: the countdown is broadcast, and at 0 the
\* timeout effect auto-plays.
HostTick ==
    /\ host.gameState = "PLAYING" /\ host.turnDuration > 0 /\ host.timeLeft > 0
    /\ LET s1 == Rendered(countdown(host, Upd(host)))
       IN \E r \in HostDrawStreams :
             HostStep(s1, timeoutEffect(s1, Upd(s1), r), broadcastEffect(host, s1, {}))

\* The host's bot effect fires.
HostBotTurn ==
    /\ host.gameState = "PLAYING"
    /\ \E wantMeld \in BOOLEAN, r \in HostDrawStreams :
          HostStep(host, botEffect(host, Upd(host), wantMeld, now, r), <<>>)

\* A handler run of the client commits its batch u, and the joined host's
\* data handler receives the message the run has sent, if any.
ClientCommit(u) ==
    /\ Assign(Rendered(u))
    /\ IF u.st.outbox = <<>>
         THEN UNCHANGED <<host, toClient, steps, now>>
         ELSE \E r \in HostDrawStreams :
              \E c \in {HostCommit(host, handleNetworkMessage(
                                      host, Upd(host), u.st.outbox[1], now, r))} :
                 /\ c.h # host => steps < MaxSteps
                 /\ Len(toClient) + Len(c.msgs) <= MaxInFlight
                 /\ host' = c.h
                 /\ toClient' = toClient \o c.msgs
                 /\ steps' = IF c.h # host THEN steps + 1 ELSE steps
                 /\ now' = IF \E m \in AllMelds(c.h.players) : m.id.t = now
                             THEN now + 1 ELSE now

\* The client's board offers the same moves as the host's, on its mirror.
ClientDraw ==
    /\ gameState = "PLAYING" /\ isMyTurn /\ turnPhase = "DRAW"
    /\ \E fromDiscard \in BOOLEAN :
          /\ fromDiscard => (discardPile # <<>> /\ Top(discardPile).type # "SKIP")
          /\ ClientCommit(handleDraw(St, Upd(St), fromDiscard, 1))
    /\ UNCHANGED reorders

ClientDiscard ==
    /\ gameState = "PLAYING" /\ isMyTurn /\ turnPhase \in {"DISCARD", "ACTION"}
    /\ \E id \in HandIds(myPlayer.hand) : ClientCommit(handleDiscard(St, Upd(St), {id}))
    /\ UNCHANGED reorders

ClientMeld ==
    /\ gameState = "PLAYING" /\ isMyTurn /\ turnPhase = "ACTION"
    /\ ~myPlayer.hasLaidDownPhase
    /\ \E sel \in SUBSET HandIds(myPlayer.hand) :
          /\ sel # {}
          /\ ClientCommit(handleMeld(St, Upd(St), sel, now))
    /\ UNCHANGED reorders

ClientHit ==
    /\ gameState = "PLAYING" /\ isMyTurn /\ turnPhase = "ACTION"
    /\ myPlayer.hasLaidDownPhase
    /\ \E cardIndex \in 0..(Len(myPlayer.hand) - 1), m \in AllMelds(players) :
       \E u \in {handleMeldDrop(St, Upd(St), cardIndex, m.id),
                 handleHitMeld(St, Upd(St), HandIds(<<myPlayer.hand[cardIndex + 1]>>),
                               m.id)} :
          ClientCommit(u)
    /\ UNCHANGED reorders

ClientReorder ==
    /\ gameState = "PLAYING" /\ reorders < MaxReorders
    /\ \E f \in 0..(Len(myPlayer.hand) - 1), t \in 0..(Len(myPlayer.hand) - 1) :
       \E u \in {handleReorderHand(St, Upd(St), f, t), sortHand(St, Upd(St))} :
          ClientCommit(u)
    /\ reorders' = reorders + 1

\* The client's registered data handler receives the next message.
ClientReceives ==
    /\ toClient # <<>>
    /\ Assign(Rendered(handleNetworkMessage(St, Upd(St), Head(toClient), now, 1)))
    /\ toClient' = Tail(toClient)
    /\ UNCHANGED <<host, now, steps, reorders>>

\* The client's own countdown, timeout and bot effects run after a render.
ClientEffects ==
    /\ gameState = "PLAYING"
    /\ \/ LET s1 == Rendered(countdown(St, Upd(St)))
          IN Commit(timeoutEffect(s1, Upd(s1), 1))
       \/ \E wantMeld \in BOOLEAN :
             Commit(botEffect(St, Upd(St), wantMeld, now, 1))
    /\ UNCHANGED reorders

NextClient ==
    \/ HostStartGame
    \/ HostPlays
    \/ HostTick
    \/ HostBotTurn
    \/ ClientReceives
    \/ ClientDraw
    \/ ClientDiscard
    \/ ClientMeld
    \/ ClientHit
    \/ ClientReorder
    \/ ClientEffects

SpecClient == InitClient /\ [][NextClient]_vars

(* ------------------- The meld validator by itself --------------------- *)
\* The cards selections are made of: three values of one colour, two of
\* them in the other colour too, two wilds and a skip.
ValidateCards ==
    {createDeck[k] : k \in {1, 2, 3, NumValues + 1, NumValues + 2,
                            NumNumbers + 1, NumNumbers + 2, DeckSize}}

\* Selections keep the order of the hand they are taken from: the order of
\* the deck, or the reverse.
InOrder(cs, up) ==
    [i \in 1..Cardinality(cs) |->
        CHOOSE c \in cs :
            Cardinality({d \in cs : IF up THEN d.id < c.id ELSE d.id > c.id}) = i - 1]
Selections ==
    {InOrder(cs, up) : cs \in {x \in SUBSET ValidateCards : Cardinality(x) <= MaxSelected},
                       up \in BOOLEAN}
Requirements ==
    [type : {"SET", "RUN", "COLOR"}, count : 1..MaxRequired]

InitValidate ==
    /\ gameState = "LOBBY"
    /\ players = <<>>
    /\ deck = <<>>
    /\ discardPile = <<>>
    /\ currentPlayerIndex = 0
    /\ turnPhase = "DRAW"
    /\ roundWinnerId = "null"
    /\ isMultiplayer = FALSE
    /\ isHost = FALSE
    /\ host = NoHost
    /\ toClient = <<>>
    /\ connectedClients = <<>>
    /\ turnDuration = TurnSeconds
    /\ timeLeft = turnDuration
    /\ now = 1
    /\ steps = 0
    /\ reorders = 0
    /\ \E cards \in Selections, r1 \in Requirements, r2 \in Requirements :
          validated = [NoCall EXCEPT !.selectedCards = cards,
                                     !.requirements = <<r1, r2>>]

\* validatePhaseHand(selectedCards, requirements) returns.
Validate ==
    /\ ~validated.returned
    /\ validated' = [validated EXCEPT
                        !.returned = TRUE,
                        !.result = validatePhaseHand(validated.selectedCards,
                                                     validated.requirements)]
    /\ UNCHANGED <<gameVars, isMultiplayer, isHost, host, toClient,
                   connectedClients, turnDuration, now, steps, reorders>>

SpecValidate == InitValidate /\ [][Validate]_vars

\* The cards single groups are made of: 3, 4, 6, 7, a second 3 and three 5s
\* of one colour, a 5 of another colour, two wilds and a skip.
GroupCards ==
    {NumberCard(0, "RED", 3), NumberCard(1, "RED", 4), NumberCard(2, "RED", 6),
     NumberCard(3, "RED", 7), NumberCard(4, "RED", 3), NumberCard(5, "BLUE", 5),
     WildCard(6), WildCard(7), SkipCard(8),
     NumberCard(9, "RED", 5), NumberCard(10, "RED", 5), NumberCard(11, "RED", 5)}
Groups ==
    {InOrder(cs, up) : cs \in {x \in SUBSET GroupCards : Cardinality(x) <= MaxGroup},
                       up \in BOOLEAN}
GroupRequirements ==
    [type : {"SET", "RUN", "COLOR"}, count : 1..MaxGroupRequired]

\* validatePhaseHand is called with one requirement.
InitGroup ==
    /\ gameState = "LOBBY"
    /\ players = <<>>
    /\ deck = <<>>
    /\ discardPile = <<>>
    /\ currentPlayerIndex = 0
    /\ turnPhase = "DRAW"
    /\ roundWinnerId = "null"
    /\ isMultiplayer = FALSE
    /\ isHost = FALSE
    /\ host = NoHost
    /\ toClient = <<>>
    /\ connectedClients = <<>>
    /\ turnDuration = TurnSeconds
    /\ timeLeft = turnDuration
    /\ now = 1
    /\ steps = 0
    /\ reorders = 0
    /\ \E cards \in Groups, req \in GroupRequirements :
          validated = [NoCall EXCEPT !.selectedCards = cards,
                                     !.requirements = <<req>>]

SpecGroup == InitGroup /\ [][Validate]_vars

(* ----------------------- The deck of the source ----------------------- *)
\* createDeck() and shuffleDeck of it, as startRound begins, for the deck
\* of the source.
InitDeck ==
    /\ gameState = "LOBBY"
    /\ players = <<>>
    /\ deck = <<>>
    /\ discardPile = <<>>
    /\ currentPlayerIndex = 0
    /\ turnPhase = "DRAW"
    /\ roundWinnerId = "null"
    /\ isMultiplayer = FALSE
    /\ isHost = FALSE
    /\ host = NoHost
    /\ toClient = <<>>
    /\ validated = NoCall
    /\ connectedClients = <<>>
    /\ turnDuration = TurnSeconds
    /\ timeLeft = turnDuration
    /\ now = 1
    /\ steps = 0
    /\ reorders = 0

NewDeck ==
    /\ deck = <<>>
    /\ \E r \in 1..NumDeckShuffles : deck' = shuffleDeck(SourceDeck, r)
    /\ UNCHANGED <<gameState, players, discardPile, currentPlayerIndex, turnPhase,
                   roundWinnerId, timeLeft, isMultiplayer, isHost, host, toClient,
                   validated, connectedClients, turnDuration, now, steps, reorders>>

SpecDeck == InitDeck /\ [][NewDeck]_vars

(* ----------------------------- Properties ----------------------------- *)
\* The game fields of a state record, without the countdown.
Game(st) ==
    [f \in {"gameState", "players", "deck", "discardPile", "currentPlayerIndex",
            "turnPhase", "roundWinnerId"} |-> st[f]]

Playing == gameState = "PLAYING"
Hands(ps) == [i \in 1..Len(ps) |-> ps[i].hand]
Melds(ps) == [i \in 1..Len(ps) |-> ps[i].melds]

\* The clients that are players of the running game.
ClientPlayers == {id \in Senders : FindIndex(players, id) # 0 - 1}
\* The client whose turn it is, if any.
CurrentClients == {id \in ClientPlayers : FindIndex(players, id) = currentPlayerIndex}

CardIds == 0..(DeckSize - 1)
CountIn(cards, id) == Cardinality({i \in 1..Len(cards) : cards[i].id = id})
RECURSIVE CountInMelds(_, _)
CountInMelds(melds, id) ==
    IF melds = <<>> THEN 0
    ELSE CountInMelds(Pop(melds), id) + CountIn(Top(melds).cards, id)
RECURSIVE CountInPlayers(_, _)
CountInPlayers(ps, id) ==
    IF ps = <<>> THEN 0
    ELSE CountInPlayers(Pop(ps), id) + CountIn(Top(ps).hand, id)
         + CountInMelds(Top(ps).melds, id)
Occurrences(id) ==
    CountIn(deck, id) + CountIn(discardPile, id) + CountInPlayers(players, id)

\* C1: while a round is being played every card id of createDeck occurs
\* exactly once across the deck, the discard pile, the hands and the melds.
C1_CardConservation ==
    Playing => \A id \in CardIds : Occurrences(id) = 1

\* C2: in every step a player's phaseIndex either stays, or goes up by one
\* in the step that ends the round (PLAYING to ROUND_OVER) for a player who
\* had laid down; a round has one such step, so at most +1 per round.
C2_PhaseIndexOnlyAtRoundEnd ==
    [][Len(players') = Len(players) =>
         \A i \in 1..Len(players) :
            players'[i].phaseIndex # players[i].phaseIndex =>
               /\ players'[i].phaseIndex = players[i].phaseIndex + 1
               /\ gameState = "PLAYING" /\ gameState' = "ROUND_OVER"
               /\ players[i].hasLaidDownPhase]_vars

\* C3: an ACTION message whose playerId is not the current player's, or is
\* no player's, leaves every game field as it was.
C3_WrongTurnActionDropped ==
    \A id \in Senders : \A action \in FullPayloads(id) : \A r \in Streams :
        FindIndex(players, id) # currentPlayerIndex =>
            Game(processHostAction(St, Upd(St), action, now, r).st) = Game(St)

\* A wrong-turn message arrives that would change the game were it applied.
C3_Witness ==
    /\ Playing
    /\ \E id \in ClientPlayers : \E action \in FullPayloads(id) :
          /\ FindIndex(players, id) # currentPlayerIndex
          /\ Game(processHostAction_anyTurn(St, Upd(St), action, now, 1).st) # Game(St)

\* The result of a DRAW message from the client whose turn it is.
DrawResult(id, fromDiscard, r) ==
    processHostAction(St, Upd(St),
                      [Action("DRAW", id) EXCEPT !.fromDiscard = fromDiscard],
                      now, r).st

\* C4: a DRAW from the current player while turnPhase is ACTION or DISCARD
\* leaves hands, deck, discard pile and turnPhase unchanged.
C4_DrawOnlyInDrawPhase ==
    \A id \in CurrentClients : \A fromDiscard \in BOOLEAN : \A r \in Streams :
        (Playing /\ turnPhase \in {"ACTION", "DISCARD"}) =>
            LET n == DrawResult(id, fromDiscard, r)
            IN /\ Hands(n.players) = Hands(players)
               /\ n.deck = deck
               /\ n.discardPile = discardPile
               /\ n.turnPhase = turnPhase

\* The result of a DISCARD message from the client whose turn it is.
DiscardResult(id, cardId) ==
    processHostAction(St, Upd(St), [Action("DISCARD", id) EXCEPT !.cardId = cardId],
                      now, 1).st

\* C5: a DISCARD from the current player while turnPhase is DRAW leaves the
\* hand, the discard pile, currentPlayerIndex and turnPhase unchanged.
C5_NoDiscardBeforeDraw ==
    \A id \in CurrentClients :
        \A cardId \in HandIds(CurrentPlayer(St).hand) :
            (Playing /\ turnPhase = "DRAW") =>
                LET n == DiscardResult(id, cardId)
                IN /\ Hands(n.players) = Hands(players)
                   /\ n.discardPile = discardPile
                   /\ n.currentPlayerIndex = currentPlayerIndex
                   /\ n.turnPhase = turnPhase

\* C6: a MELD by the current player who has already laid down this round,
\* entered locally or received as an ACTION message, leaves that player's
\* hand and melds unchanged.
C6_MeldOnlyOncePerRound ==
    (Playing /\ players # <<>> /\ CurrentPlayer(St).hasLaidDownPhase) =>
        /\ isMyTurn =>
              \A sel \in SUBSET HandIds(myPlayer.hand) :
                 LET n == handleMeld(St, Upd(St), sel, now).st
                 IN Hands(n.players) = Hands(players)
                    /\ Melds(n.players) = Melds(players)
        /\ \A id \in CurrentClients : \A cs \in SUBSET HandIds(CurrentPlayer(St).hand) :
              LET n == processHostAction(St, Upd(St),
                           [Action("MELD", id) EXCEPT !.cardIds = cs], now, 1).st
              IN Hands(n.players) = Hands(players)
                 /\ Melds(n.players) = Melds(players)

\* C7: a HIT by the current player who has not laid down this round, or in
\* turnPhase DRAW, dropped locally or received as an ACTION message, leaves
\* every hand and every meld unchanged.
C7_HitOnlyAfterLayDown ==
    (Playing /\ players # <<>>
       /\ (~CurrentPlayer(St).hasLaidDownPhase \/ turnPhase = "DRAW")) =>
        \A m \in AllMelds(players) :
           /\ isMyTurn =>
                 \A cardIndex \in 0..(Len(myPlayer.hand) - 1) :
                    LET n == handleMeldDrop(St, Upd(St), cardIndex, m.id).st
                    IN Hands(n.players) = Hands(players)
                       /\ Melds(n.players) = Melds(players)
           /\ \A id \in CurrentClients : \A c \in HandIds(CurrentPlayer(St).hand) :
                 LET n == processHostAction(St, Upd(St),
                              [Action("HIT", id) EXCEPT !.cardId = c, !.meldId = m.id],
                              now, 1).st
                 IN Hands(n.players) = Hands(players)
                    /\ Melds(n.players) = Melds(players)

\* The discards that can run in the current state, one record per entry
\* point and card: the discarding player's id, the hand the card is taken
\* from, the card, and the state the handler commits.
DiscardRuns ==
    IF players = <<>> THEN {}
    ELSE
    LET p == CurrentPlayer(St)
        s0 == [St EXCEPT !.timeLeft = 0]
        Run(hand, card, n) == [id |-> p.id, hand |-> hand, card |-> card, n |-> n]
    IN (IF Playing /\ isMyTurn /\ turnPhase \in {"ACTION", "DISCARD"}
              /\ ~HasHole(p.hand)
          THEN {Run(p.hand, CardById(p.hand, c),
                    performDiscard(St, Upd(St), p, CardById(p.hand, c)).st) :
                   c \in HandIds(p.hand)}
          ELSE {})
       \cup
       (IF p.id \in CurrentClients /\ ~HasHole(p.hand)
          THEN {Run(p.hand, CardById(p.hand, c), DiscardResult(p.id, c)) :
                   c \in HandIds(p.hand)}
          ELSE {})
       \cup
       (IF Playing /\ p.isHuman /\ turnPhase # "DRAW" /\ turnDuration > 0
              /\ ~HasHole(p.hand) /\ p.hand # <<>>
          THEN {Run(p.hand, HighestDiscard(p.hand)[1],
                    handleTimeout(s0, Upd(s0), 1).st)}
          ELSE {})
       \cup
       (IF Playing /\ ~p.isHuman /\ ~(Len(deck) = 0 /\ Len(discardPile) <= 1)
          THEN UNION {LET b == BotDrawAndMeld(St, p, wantMeld, r)
                      IN IF b.currentHand = <<>> THEN {}
                         ELSE {Run(b.currentHand, HighestDiscard(b.currentHand)[1],
                                   botPlayTurn(St, Upd(St), p, wantMeld, now, r).st)} :
                         wantMeld \in BOOLEAN, r \in DrawStreams}
          ELSE {})

\* The hits that can run in the current state and that the meld accepts.
HitRuns ==
    IF players = <<>> THEN {}
    ELSE
    LET p == CurrentPlayer(St)
        Run(card, n) == [id |-> p.id, hand |-> p.hand, card |-> card, n |-> n]
    IN UNION {
         (IF Playing /\ isMyTurn /\ turnPhase = "ACTION" /\ p.hasLaidDownPhase
               /\ ~HasHole(p.hand)
            THEN {Run(p.hand[k], handleMeldDrop(St, Upd(St), k - 1, m.id).st) :
                     k \in {j \in 1..Len(p.hand) : canAddToMeld(p.hand[j], m)}}
            ELSE {})
         \cup
         (IF p.id \in CurrentClients /\ ~HasHole(p.hand)
            THEN {Run(p.hand[k],
                      processHostAction(St, Upd(St),
                          [Action("HIT", p.id) EXCEPT !.cardId = p.hand[k].id,
                                                       !.meldId = m.id],
                          now, 1).st) :
                     k \in {j \in 1..Len(p.hand) : canAddToMeld(p.hand[j], m)}}
            ELSE {}) : m \in AllMelds(players)}

\* The runs in which the discard or hit takes the last card of the hand.
LastCardRuns ==
    {run \in DiscardRuns \cup HitRuns : WithoutId(run.hand, run.card.id) = <<>>}

\* C8: a discard or hit that empties the acting player's hand ends the round
\* in the same step: ROUND_OVER, that player the winner, the turn not moved.
C8_EmptyHandEndsRound ==
    \A run \in LastCardRuns :
        /\ run.n.gameState = "ROUND_OVER"
        /\ run.n.roundWinnerId = run.id
        /\ run.n.currentPlayerIndex = currentPlayerIndex

\* A round has been ended by the player whose turn it still is.
C8_Witness ==
    /\ gameState = "ROUND_OVER"
    /\ roundWinnerId = CurrentPlayer(St).id

\* The penalty of a hand as the rules state it.
RECURSIVE HandPenalty(_)
HandPenalty(hand) ==
    IF hand = <<>> THEN 0
    ELSE HandPenalty(Pop(hand)) +
         (CASE Top(hand).type = "WILD" -> 25
            [] Top(hand).type = "SKIP" -> 15
            [] Top(hand).type = "NUMBER" /\ Top(hand).value >= 10 -> 10
            [] OTHER -> 5)

\* C9: at round end the winner's score is unchanged and every other
\* player's score grows by the penalty of the hand it holds.
C9_RoundEndScores ==
    \A run \in LastCardRuns :
        /\ Len(run.n.players) = Len(players)
        /\ \A i \in 1..Len(players) :
              run.n.players[i].score =
                 IF players[i].id = run.id THEN players[i].score
                 ELSE players[i].score + HandPenalty(players[i].hand)

\* A round has ended with both scoring classes of number cards, a wild and
\* a skip left in the losers' hands.
C9_Witness ==
    /\ gameState = "ROUND_OVER"
    /\ \E i \in 1..Len(players) :
          /\ players[i].id = roundWinnerId
          /\ players[i].score = 0
    /\ \E i \in 1..Len(players) :
          /\ players[i].id # roundWinnerId
          /\ players[i].score = HandPenalty(players[i].hand)
          /\ \E k \in 1..Len(players[i].hand) : players[i].hand[k].type = "WILD"
          /\ \E k \in 1..Len(players[i].hand) :
                players[i].hand[k].type = "NUMBER" /\ players[i].hand[k].value < 10
    /\ \E i \in 1..Len(players) :
          /\ players[i].id # roundWinnerId
          /\ players[i].score = HandPenalty(players[i].hand)
          /\ \E k \in 1..Len(players[i].hand) : players[i].hand[k].type = "SKIP"
          /\ \E k \in 1..Len(players[i].hand) :
                players[i].hand[k].type = "NUMBER" /\ players[i].hand[k].value >= 10

\* C10: a SKIP discard that leaves the hand non-empty moves the turn from
\* index i to (i+2) mod n in turnPhase DRAW, marks player (i+1) mod n as
\* skipped, and changes no other player's isSkipped.
C10_SkipDiscard ==
    \A run \in DiscardRuns :
        (run.card.type = "SKIP" /\ WithoutId(run.hand, run.card.id) # <<>>) =>
            LET n == Len(players)
                i == currentPlayerIndex
            IN /\ run.n.currentPlayerIndex = (i + 2) % n
               /\ run.n.turnPhase = "DRAW"
               /\ run.n.players[((i + 1) % n) + 1].isSkipped
               /\ \A j \in (0..(n - 1)) \ {(i + 1) % n} :
                     run.n.players[j + 1].isSkipped = players[j + 1].isSkipped

\* A SKIP has been discarded by player 0: player 1 is skipped, player 2 is
\* to draw, player 3 is not skipped.
C10_Witness ==
    /\ Playing /\ turnPhase = "DRAW" /\ currentPlayerIndex = 2
    /\ Len(discardPile) > 1 /\ Top(discardPile).type = "SKIP"
    /\ players[2].isSkipped /\ ~players[3].isSkipped /\ ~players[4].isSkipped

\* C11: the skipped flag is transient: a player whose turn it is (play has
\* come round to it again after the skip) no longer carries isSkipped.
C11_SkippedFlagCleared ==
    (Playing /\ players # <<>>) => ~CurrentPlayer(St).isSkipped

\* The draws from the discard pile that can run in the current state: the
\* local click of the player whose turn it is, and the DRAW message of the
\* client whose turn it is.
DiscardDrawRuns ==
    IF players = <<>> THEN {}
    ELSE (IF isMyTurn /\ turnPhase = "DRAW"
            THEN {handleDraw(St, Upd(St), TRUE, 1).st} ELSE {})
         \cup {DrawResult(id, TRUE, 1) : id \in CurrentClients}

\* C12: a draw from the discard pile is refused when the top card is a SKIP
\* (piles, deck, hands and turnPhase as before); for any other top card it
\* moves exactly that card to the current player's hand, leaves the deck and
\* the other hands alone and sets turnPhase to ACTION.
C12_DrawFromDiscard ==
    (Playing /\ discardPile # <<>>) =>
        \A n \in DiscardDrawRuns :
            IF Top(discardPile).type = "SKIP"
              THEN /\ n.discardPile = discardPile
                   /\ n.deck = deck
                   /\ Hands(n.players) = Hands(players)
                   /\ n.turnPhase = turnPhase
              ELSE /\ n.discardPile = Pop(discardPile)
                   /\ n.deck = deck
                   /\ Hands(n.players) =
                         [Hands(players) EXCEPT ![currentPlayerIndex + 1] =
                             Append(@, Top(discardPile))]
                   /\ n.turnPhase = "ACTION"

\* A client is to draw with a SKIP on top of the discard pile, and its
\* draw from the discard pile is refused with the notice.
C12_Witness ==
    /\ Playing /\ turnPhase = "DRAW"
    /\ discardPile # <<>> /\ Top(discardPile).type = "SKIP"
    /\ \E id \in CurrentClients :
          DrawResult(id, TRUE, 1).notification = "Cannot pick up a Skip card!"

\* The deck draws that can run in the current state, one record per entry
\* point: the drawing player's index, whether the run is a bot's whole turn
\* (draw, perhaps a meld, discard), and the state the handler commits.
DeckDrawRuns ==
    IF players = <<>> \/ ~Playing THEN {}
    ELSE
    LET p == CurrentPlayer(St)
        s0 == [St EXCEPT !.timeLeft = 0]
        Run(bot, n) == [idx |-> currentPlayerIndex, bot |-> bot, n |-> n]
    IN (IF isMyTurn /\ turnPhase = "DRAW"
          THEN {Run(FALSE, handleDraw(St, Upd(St), FALSE, r).st) : r \in Streams}
          ELSE {})
       \cup {Run(FALSE, DrawResult(id, FALSE, r)) : id \in CurrentClients, r \in Streams}
       \cup
       (IF p.isHuman /\ turnPhase = "DRAW" /\ turnDuration > 0
          THEN {Run(FALSE, handleTimeout(s0, Upd(s0), r).st) : r \in Streams}
          ELSE {})
       \cup
       (IF ~p.isHuman
          THEN {Run(TRUE, botPlayTurn(St, Upd(St), p, wantMeld, now, r).st) :
                   wantMeld \in BOOLEAN, r \in Streams}
          ELSE {})

\* The cards of seq a are the cards of seq b and the card c, each as often.
SameCardsPlus(a, b, c) ==
    \A id \in CardIds \cup {c.id} :
        CountIn(a, id) = CountIn(b, id) + (IF c.id = id THEN 1 ELSE 0)

\* C13: a deck draw from an empty deck with k >= 2 discards leaves the
\* previous top discard as the only card of the discard pile (followed, in a
\* bot's turn, by the card the bot then discards), and the other k-1 former
\* discards are the new deck and the one card drawn.
C13_RecycleRule ==
    (deck = <<>> /\ Len(discardPile) >= 2) =>
        \A run \in DeckDrawRuns :
            LET n == run.n
                hand == n.players[run.idx + 1].hand
            IN IF run.bot
                 THEN /\ Len(n.discardPile) = 2
                      /\ n.discardPile[1] = Top(discardPile)
                      /\ \E c \in {Pop(discardPile)[i] : i \in 1..(Len(discardPile) - 1)} :
                            SameCardsPlus(Pop(discardPile), n.deck, c)
                 ELSE /\ n.discardPile = <<Top(discardPile)>>
                      /\ hand = Append(players[run.idx + 1].hand, Top(hand))
                      /\ SameCardsPlus(Pop(discardPile), n.deck, Top(hand))

\* C14: a deck draw attempted with an empty deck and at most one discard
\* changes no game field and produces the "Game Draw" notice, whoever draws.
C14_Stalemate ==
    (deck = <<>> /\ Len(discardPile) <= 1) =>
        \A run \in DeckDrawRuns :
            /\ Game(run.n) = Game(St)
            /\ run.n.notification = "Deck empty and no discard to shuffle. Game Draw."

\* Some player is on the last phase and has laid down in the round just played.
LastPhaseLaidDown ==
    \E i \in 1..Len(players) :
        players[i].phaseIndex = Len(phases) - 1 /\ players[i].hasLaidDownPhase

Roster(ps) == [i \in 1..Len(ps) |-> ps[i].id]

TimeoutRuns ==
    LET s0 == [St EXCEPT !.timeLeft = 0]
    IN {handleTimeout(s0, Upd(s0), r).st : r \in Streams}

\* Card c is the one the auto-discard owes for this hand: the highest NUMBER
\* card, and with no NUMBER card the highest card of any kind.
HighestOwed(hand, c) ==
    LET cards == {hand[i] : i \in 1..Len(hand)}
        numbers == {d \in cards : d.type = "NUMBER"}
    IN /\ c \in cards
       /\ IF numbers # {}
            THEN c \in numbers /\ \A d \in numbers : d.value <= c.value
            ELSE \A d \in cards : d.value <= c.value

\* C16: when the countdown reaches 0 in a running game with a turn timer,
\* on a human's turn in DRAW the current player gets one card of the deck
\* and the top discard stays; in another phase the highest NUMBER card of
\* that hand (or the highest card when it has none) goes on the discard
\* pile; on a bot's turn nothing but the countdown changes.
C16_TimeoutAutoPlay ==
    (Playing /\ turnDuration > 0 /\ players # <<>>) =>
        \A n \in TimeoutRuns :
            LET p == CurrentPlayer(St)
                q == n.players[currentPlayerIndex + 1]
            IN IF ~p.isHuman
                 THEN Game(n) = Game([St EXCEPT !.timeLeft = 0])
               ELSE IF turnPhase = "DRAW"
                 THEN /\ Len(q.hand) = Len(p.hand) + 1
                      /\ SubSeq(q.hand, 1, Len(p.hand)) = p.hand
                      /\ Top(n.discardPile) = Top(discardPile)
                      /\ IF deck # <<>>
                           THEN /\ Top(q.hand) = Top(deck)
                                /\ n.deck = Pop(deck)
                                /\ n.discardPile = discardPile
                           ELSE /\ n.discardPile = <<Top(discardPile)>>
                                /\ SameCardsPlus(Pop(discardPile), n.deck, Top(q.hand))
               ELSE p.hand # <<>> =>
                      /\ n.discardPile = Append(discardPile, Top(n.discardPile))
                      /\ HighestOwed(p.hand, Top(n.discardPile))

\* The mirror a client holds after it applies the message msg to the mirror s.
Applied(s, msg) == Rendered(handleNetworkMessage(s, Upd(s), msg, now, 1))

\* The mirror s holds exactly what the game STATE_UPDATE payload data says.
Mirrors(s, data) ==
    /\ s.players = data.players
    /\ s.discardPile = data.discardPile
    /\ s.currentPlayerIndex = data.currentPlayerIndex
    /\ s.turnPhase = data.turnPhase
    /\ s.gameState = data.gameState
    /\ s.phases = data.phases
    /\ s.roundWinnerId = data.roundWinnerId
    /\ s.timeLeft = data.timeLeft
    /\ Len(s.deck) = data.deckCount

\* C17: after a client applies a game STATE_UPDATE, its players, discard
\* pile, currentPlayerIndex, turnPhase, gameState, phases, roundWinnerId and
\* timeLeft equal the values of the message and its deck is deckCount cards
\* long, whatever the mirror held before - the current mirror or the mirror
\* another message on its way has just overwritten.
C17_MirrorOverwrite ==
    (isMultiplayer /\ ~isHost) =>
        \A i \in 1..Len(toClient) :
            /\ toClient[i].type = "STATE_UPDATE"
            /\ Mirrors(Applied(St, toClient[i]), toClient[i].payload)
            /\ \A j \in 1..Len(toClient) :
                   Mirrors(Applied(Applied(St, toClient[j]), toClient[i]),
                           toClient[i].payload)

\* A client is about to apply a message with an empty discard pile, player
\* index 0 and no round winner to a mirror with another pile and other hands.
C17_Witness ==
    /\ isMultiplayer /\ ~isHost
    /\ toClient # <<>>
    /\ Head(toClient).payload.discardPile = <<>> /\ discardPile # <<>>
    /\ Head(toClient).payload.currentPlayerIndex = 0
    /\ Head(toClient).payload.roundWinnerId = "null"
    /\ Head(toClient).payload.players # players

\* The batches the handlers and effects of the instance leave when they run
\* on the current render, whoever's turn it is: draw, discard, meld, hit (by
\* button and by drop), reorder, sort, next round, start game, and the
\* countdown, timeout and bot effects.
ClientRuns ==
    LET ids == HandIds(myPlayer.hand)
        idxs == 0..Len(myPlayer.hand)
    IN {handleDraw(St, Upd(St), d, r) : d \in BOOLEAN, r \in Streams}
       \cup {handleDiscard(St, Upd(St), sel) : sel \in SUBSET ids}
       \cup {handleMeld(St, Upd(St), sel, now) : sel \in SUBSET ids}
       \cup {handleHitMeld(St, Upd(St), sel, m.id) :
                 sel \in SUBSET ids, m \in AllMelds(players)}
       \cup {handleMeldDrop(St, Upd(St), i, m.id) :
                 i \in idxs, m \in AllMelds(players)}
       \cup {handleReorderHand(St, Upd(St), f, t) : f \in idxs, t \in idxs}
       \cup {sortHand(St, Upd(St))}
       \cup {nextRound(St, Upd(St), r) : r \in Streams}
       \cup {startGame(St, Upd(St), r) : r \in Streams}
       \cup {countdown(St, Upd(St))}
       \cup {timeoutEffect(St, Upd(St), r) : r \in Streams}
       \cup {botEffect(St, Upd(St), w, now, r) : w \in BOOLEAN, r \in Streams}

\* The batch u of a run on the render s leaves the game state alone and sends
\* at most one message, an ACTION.
OnlySends(s, u) ==
    /\ Game(Rendered(u)) = Game(s)
    /\ Rendered(u).timeLeft = s.timeLeft
    /\ u.set \subseteq {"notification", "outbox"}
    /\ Len(u.st.outbox) <= 1
    /\ \A i \in 1..Len(u.st.outbox) : u.st.outbox[i].type = "ACTION"

\* C18: on a non-host participant of a multiplayer session that shows a
\* game, draw, discard, meld, hit, reorder, sort and next-round attempts only
\* send an ACTION message or do nothing, the countdown, timeout and bot
\* effects do nothing, and a step changes players, deck, discard pile,
\* currentPlayerIndex, turnPhase, gameState, roundWinnerId or timeLeft only
\* by applying the next STATE_UPDATE of the host.
C18_ClientOnlyMirrors ==
    /\ []((isMultiplayer /\ ~isHost /\ players # <<>>)
             => \A u \in ClientRuns : OnlySends(St, u))
    /\ [][(isMultiplayer /\ ~isHost /\ gameVars' # gameVars)
            => /\ toClient # <<>>
               /\ Head(toClient).type = "STATE_UPDATE"
               /\ toClient' = Tail(toClient)
               /\ Mirrors([St EXCEPT !.gameState = gameState', !.players = players',
                               !.deck = deck', !.discardPile = discardPile',
                               !.currentPlayerIndex = currentPlayerIndex',
                               !.turnPhase = turnPhase',
                               !.roundWinnerId = roundWinnerId',
                               !.timeLeft = timeLeft'],
                           Head(toClient).payload)]_vars

\* It is the client's turn on its mirror, it holds cards, and the countdown
\* it displays has reached 0: a client that played for itself would act.
C18_Witness ==
    /\ isMultiplayer /\ ~isHost
    /\ gameState = "PLAYING" /\ isMyTurn /\ turnPhase = "ACTION"
    /\ timeLeft = 0 /\ turnDuration > 0
    /\ myPlayer.hand # <<>>
    /\ \E u \in ClientRuns : u.st.outbox # <<>>

\* The well-formed payloads the player id can send about the render s: its
\* own cards, the melds on the table, indices inside its hand.
PayloadsIn(s, id) ==
    LET idx == FindIndex(s.players, id)
        hand == IF idx = 0 - 1 THEN <<>> ELSE s.players[idx + 1].hand
        ids == HandIds(hand)
    IN {[Action("DRAW", id) EXCEPT !.fromDiscard = b] : b \in BOOLEAN}
       \cup {[Action("DISCARD", id) EXCEPT !.cardId = c] : c \in ids}
       \cup {[Action("MELD", id) EXCEPT !.cardIds = cs] : cs \in SUBSET ids}
       \cup {[Action("HIT", id) EXCEPT !.cardId = c, !.meldId = m.id] :
                c \in ids, m \in AllMelds(s.players)}
       \cup {[Action("REORDER", id) EXCEPT !.fromIndex = f, !.toIndex = t] :
                f \in 0..(Len(hand) - 1), t \in 0..(Len(hand) - 1)}

\* The render of the host after its data handler has processed the action
\* with the closure s and the pending batch u.
Processed(s, u, action, t) == Rendered(processHostAction(s, u, action, t, 1))

\* C19: when two valid actions of the player at turn arrive at the host
\* back-to-back, the second before the re-render of the first, the game
\* state is the one that processing the second on the state the first
\* produced gives: each effect is there, none is computed from the stale
\* render.
C19_OneAtATime ==
    (Playing /\ isHost /\ players # <<>>) =>
        \A id \in {connectedClients[i] : i \in 1..Len(connectedClients)} :
        \A a1 \in PayloadsIn(St, id) :
            LET s1 == Processed(St, Upd(St), a1, now)
            IN Game(s1) # Game(St) =>
               \A a2 \in PayloadsIn(s1, id) :
                  LET s2 == Processed(s1, Upd(s1), a2, now + 1)
                      backToBack == Processed(St, Upd(s1), a2, now + 1)
                  IN Game(s2) # Game(s1) => Game(backToBack) = Game(s2)

\* The cards of a selection at the positions pos, in the selection's order.
Part(cards, pos) ==
    LET RECURSIVE From(_)
        From(j) == IF j > Len(cards) THEN <<>>
                   ELSE IF j \in pos THEN <<cards[j]>> \o From(j + 1)
                   ELSE From(j + 1)
    IN From(1)

\* The splits of a selection of n cards into two parts, none empty, as the
\* positions of the part that is to satisfy the first requirement.
Splits(n) == {pos \in SUBSET (1..n) : pos # {} /\ pos # 1..n}

\* The part at the positions pos satisfies r1 and the rest satisfies r2.
Satisfies(cards, pos, r1, r2) ==
    /\ checkSingleReq(Part(cards, pos), r1)
    /\ checkSingleReq(Part(cards, (1..Len(cards)) \ pos), r2)

\* The number of the subset pos in the enumeration 1, 2, ... of the subsets
\* of the positions (position j counts 2^(j-1)), and the place at which the
\* enumeration first meets the split of pos and the rest.
RECURSIVE SubsetNumber(_)
SubsetNumber(pos) ==
    IF pos = {} THEN 0
    ELSE LET j == CHOOSE x \in pos : TRUE
         IN Pow2(j - 1) + SubsetNumber(pos \ {j})
SplitPlace(n, pos) == Min(SubsetNumber(pos), SubsetNumber((1..n) \ pos))

\* C20: with two requirements r1 and r2, validatePhaseHand returns valid
\* exactly when some split of the selection into two non-empty parts has
\* one part satisfying r1 and the other r2; the groups it then returns are
\* such a split, groups[0] satisfying r1 and groups[1] r2, no satisfying
\* split comes earlier in the enumeration of the subsets, and the two groups
\* hold every selected card exactly once.
C20_TwoRequirementSplit ==
    validated.returned =>
        LET cards == validated.selectedCards
            n == Len(cards)
            r1 == validated.requirements[1]
            r2 == validated.requirements[2]
            result == validated.result
            good == {pos \in Splits(n) : Satisfies(cards, pos, r1, r2)}
        IN /\ result.valid <=> good # {}
           /\ result.valid =>
                 \E pos \in good :
                    /\ result.groups = <<Part(cards, pos), Part(cards, (1..n) \ pos)>>
                    /\ \A other \in good : SplitPlace(n, pos) <= SplitPlace(n, other)
           /\ result.valid =>
                 /\ Len(result.groups) = 2
                 /\ checkSingleReq(result.groups[1], r1)
                 /\ checkSingleReq(result.groups[2], r2)
                 /\ Len(result.groups[1]) + Len(result.groups[2]) = n
                 /\ \A i \in 1..n :
                       Cardinality({k \in 1..Len(result.groups[1]) :
                                       result.groups[1][k] = cards[i]})
                       + Cardinality({k \in 1..Len(result.groups[2]) :
                                         result.groups[2][k] = cards[i]}) = 1

\* A selection has been found valid by a split that satisfies the
\* requirements only with the part of the lower subset number taken for the
\* second requirement, while another split satisfies them too.
C20_Witness ==
    /\ validated.returned
    /\ validated.result.valid
    /\ LET cards == validated.selectedCards
           n == Len(cards)
           r1 == validated.requirements[1]
           r2 == validated.requirements[2]
           good == {pos \in Splits(n) : Satisfies(cards, pos, r1, r2)}
       IN /\ Cardinality(good) > 1
          /\ \E pos \in good :
                /\ validated.result.groups
                      = <<Part(cards, pos), Part(cards, (1..n) \ pos)>>
                /\ SubsetNumber(pos) > SubsetNumber((1..n) \ pos)
                /\ ~Satisfies(cards, (1..n) \ pos, r1, r2)

\* The call that has returned is isValidRun(cards, count) on these number
\* values of one colour and this many wilds, and nothing else.
RunCallOn(values, wilds, count) ==
    /\ validated.returned
    /\ validated.requirements = <<[type |-> "RUN", count |-> count]>>
    /\ LET cards == validated.selectedCards
       IN /\ Len(cards) = Len(values) + wilds
          /\ Len(OfType(cards, "WILD")) = wilds
          /\ \E f \in [1..Len(values) -> 1..Len(cards)] :
                /\ \A i, j \in 1..Len(values) : i # j => f[i] # f[j]
                /\ \A i \in 1..Len(values) :
                      /\ cards[f[i]].type = "NUMBER"
                      /\ cards[f[i]].color = "RED"
                      /\ cards[f[i]].value = values[i]

\* C21: for a 7-card RUN requirement, isValidRun on the number cards 3, 4,
\* 6, 7 of one colour and 2 wilds returns true; on the number cards 3, 3, 4
\* it returns false.
C21_RunExamples ==
    /\ RunCallOn(<<3, 4, 6, 7>>, 2, 7) => validated.result.valid
    /\ RunCallOn(<<3, 3, 4>>, 0, 7) => ~validated.result.valid

\* C21 as the code has it: the six cards 3, 4, 6, 7, W, W are a run for a
\* requirement of up to 6 cards and no run of 7; 3, 3, 4 is no run for any
\* count, also where three cards are enough.
C21_RunExamplesBySize ==
    \A count \in 1..MaxGroupRequired :
       /\ RunCallOn(<<3, 4, 6, 7>>, 2, count)
             => (validated.result.valid <=> count <= 6)
       /\ RunCallOn(<<3, 3, 4>>, 0, count) => ~validated.result.valid

\* isValidRun has returned for the six cards 3, 4, 6, 7, W, W and a count
\* of 7: not a run.
C21_Witness ==
    RunCallOn(<<3, 4, 6, 7>>, 2, 7) /\ ~validated.result.valid

\* The rule of a run over the cards that are no wilds: no value twice, and
\* no more values missing between the lowest and the highest than there are
\* wilds; nothing to ask of wilds alone.
RunRule(cards) ==
    LET nonWild == {i \in 1..Len(cards) : cards[i].type # "WILD"}
        wilds == Len(cards) - Cardinality(nonWild)
        values == {cards[i].value : i \in nonWild}
        lowest == CHOOSE v \in values : \A w \in values : v <= w
        highest == CHOOSE v \in values : \A w \in values : v >= w
    IN nonWild # {} =>
          /\ Cardinality(values) = Cardinality(nonWild)
          /\ (highest - lowest + 1) - Cardinality(values) <= wilds

\* C22: for every selection of at least K cards, isValidRun accepts exactly
\* when the cards that are no WILD (a SKIP is such a card), sorted by value,
\* have no value twice and the values missing between adjacent ones are no
\* more than the WILD cards of the selection; wilds alone are accepted.
C22_RunCheck ==
    (/\ validated.returned
     /\ Len(validated.requirements) = 1
     /\ validated.requirements[1].type = "RUN"
     /\ Len(validated.selectedCards) >= validated.requirements[1].count)
       => (validated.result.valid <=> RunRule(validated.selectedCards))

\* The group a call with one requirement has found valid, as a meld on the
\* table.
ValidatedMeld ==
    [id |-> [kind |-> "meld", owner |-> "", t |-> now, idx |-> 0],
     cards |-> validated.selectedCards,
     type |-> validated.requirements[1].type,
     ownerId |-> "p1"]
HasValidatedMeld ==
    /\ validated.returned /\ validated.result.valid
    /\ Len(validated.requirements) = 1
    /\ validated.selectedCards # <<>>
NumberValues(cards) ==
    {cards[i].value : i \in {j \in 1..Len(cards) : cards[j].type = "NUMBER"}}
IsFive(c) == c.type = "NUMBER" /\ c.value = 5

\* C23: canAddToMeld is false for every SKIP card; for any other card it is
\* true exactly when the meld's cards with the card added are valid under
\* the meld's kind at the meld's size.  A SET of three 5s takes a 5 of
\* another colour; a RUN of number cards and wilds takes no card whose value
\* one of its number cards has, and none that leaves more values missing
\* than the run has wilds.
C23_CanAddToMeld ==
    HasValidatedMeld =>
        LET meld == ValidatedMeld
            size == Len(meld.cards)
        IN \A card \in GroupCards \ {meld.cards[i] : i \in 1..size} :
              LET newGroup == Append(meld.cards, card)
              IN /\ card.type = "SKIP" => ~canAddToMeld(card, meld)
                 /\ card.type # "SKIP" =>
                       (canAddToMeld(card, meld)
                          <=> checkSingleReq(newGroup, [type |-> meld.type,
                                                        count |-> size]))
                 /\ (/\ meld.type = "SET" /\ size = 3 /\ IsFive(card)
                     /\ \A i \in 1..size : IsFive(meld.cards[i]))
                       => canAddToMeld(card, meld)
                 /\ (/\ meld.type = "RUN" /\ card.type = "NUMBER"
                     /\ \A i \in 1..size : meld.cards[i].type # "SKIP")
                       => /\ card.value \in NumberValues(meld.cards)
                             => ~canAddToMeld(card, meld)
                          /\ ~RunRule(newGroup) => ~canAddToMeld(card, meld)
                          /\ canAddToMeld(card, meld) => RunRule(newGroup)

\* A SET meld of three 5s of one colour is on the table and the 5 of the
\* other colour can be added.
C23_Witness ==
    /\ HasValidatedMeld
    /\ ValidatedMeld.type = "SET"
    /\ Len(ValidatedMeld.cards) = 3
    /\ \A i \in 1..3 : IsFive(ValidatedMeld.cards[i]) /\ ValidatedMeld.cards[i].color = "RED"
    /\ canAddToMeld(NumberCard(5, "BLUE", 5), ValidatedMeld)

\* Every order of the cards of a selection.
Orders(cards) ==
    LET n == Len(cards)
    IN {[i \in 1..n |-> cards[f[i]]] :
           f \in {g \in [1..n -> 1..n] : \A i, j \in 1..n : i # j => g[i] # g[j]}}

\* C24: the verdicts of isValidSet, isValidColor and isValidRun and the
\* valid/invalid verdict of validatePhaseHand are the same for every order
\* of the selected cards.
C24_OrderIndependent ==
    validated.returned =>
        \A cards \in Orders(validated.selectedCards) :
           /\ validatePhaseHand(cards, validated.requirements).valid
                 = validated.result.valid
           /\ \A k \in 1..Len(validated.requirements) :
                 LET count == validated.requirements[k].count
                 IN /\ isValidSet(cards, count)
                         = isValidSet(validated.selectedCards, count)
                    /\ isValidColor(cards, count)
                         = isValidColor(validated.selectedCards, count)
                    /\ isValidRun(cards, count)
                         = isValidRun(validated.selectedCards, count)

\* A selection of MaxSelected cards is valid, and in another order the same
\* verdict comes with other groups.
C24_Witness ==
    /\ validated.returned /\ validated.result.valid
    /\ Len(validated.selectedCards) = MaxSelected
    /\ \E cards \in Orders(validated.selectedCards) :
          validatePhaseHand(cards, validated.requirements).groups
             # validated.result.groups

\* The meld attempts of the player at turn with every selection of cards
\* of the hand: by the Meld button on the player's own instance, by a MELD
\* message of a client.  sel: the selected ids, n: the render that follows.
MeldRuns ==
    IF players = <<>> \/ ~Playing THEN {}
    ELSE
    LET p == CurrentPlayer(St)
        Run(sel, n) == [sel |-> sel, n |-> n]
    IN (IF isMyTurn /\ turnPhase = "ACTION"
          THEN {Run(sel, Rendered(handleMeld(St, Upd(St), sel, now))) :
                   sel \in SUBSET HandIds(p.hand)}
          ELSE {})
       \cup
       (IF isHost /\ p.id \in CurrentClients /\ turnPhase = "ACTION"
          THEN {Run(sel, Rendered(processHostAction(
                                     St, Upd(St),
                                     [Action("MELD", p.id) EXCEPT !.cardIds = sel],
                                     now, 1))) :
                   sel \in SUBSET HandIds(p.hand)}
          ELSE {})

\* C25: on a phase of one requirement, a meld attempt that succeeds leaves
\* one more meld with the player, holding all the selected cards, of the
\* requirement's kind and with the player as owner; exactly the selected
\* cards have left the hand; hasLaidDownPhase is true; turnPhase is still
\* ACTION and currentPlayerIndex, like all the rest, is as before.  An
\* attempt with a selection that is not valid changes nothing.
C25_SingleRequirementMeld ==
    \A run \in MeldRuns :
        LET p == CurrentPlayer(St)
            requirements == phases[p.phaseIndex + 1].requirements
            selected == InIds(p.hand, run.sel)
            q == run.n.players[currentPlayerIndex + 1]
        IN Len(requirements) = 1 =>
              /\ ~checkSingleReq(selected, requirements[1]) => Game(run.n) = Game(St)
              /\ Game(run.n) # Game(St) =>
                    /\ checkSingleReq(selected, requirements[1])
                    /\ Len(q.melds) = Len(p.melds) + 1
                    /\ SubSeq(q.melds, 1, Len(p.melds)) = p.melds
                    /\ Top(q.melds).cards = selected
                    /\ Top(q.melds).type = requirements[1].type
                    /\ Top(q.melds).ownerId = p.id
                    /\ q.hand = NotInIds(p.hand, run.sel)
                    /\ Len(q.hand) + Len(selected) = Len(p.hand)
                    /\ q.hasLaidDownPhase
                    /\ run.n.turnPhase = "ACTION"
                    /\ run.n.currentPlayerIndex = currentPlayerIndex
                    /\ run.n.players =
                          [players EXCEPT ![currentPlayerIndex + 1] =
                              [p EXCEPT !.hand = q.hand, !.melds = q.melds,
                                        !.hasLaidDownPhase = TRUE]]
                    /\ [Game(run.n) EXCEPT !.players = players] = Game(St)

\* A player can lay down a SET with a wild and more cards than the
\* requirement asks for, and can also select cards that are no SET.
C25_Witness ==
    /\ \E run \in MeldRuns :
          /\ Game(run.n) # Game(St)
          /\ Len(phases[CurrentPlayer(St).phaseIndex + 1].requirements) = 1
          /\ Cardinality(run.sel)
                > phases[CurrentPlayer(St).phaseIndex + 1].requirements[1].count
          /\ \E c \in 1..Len(CurrentPlayer(St).hand) :
                /\ CurrentPlayer(St).hand[c].type = "WILD"
                /\ CurrentPlayer(St).hand[c].id \in run.sel
    /\ \E run \in MeldRuns : run.sel # {} /\ Game(run.n) = Game(St)

\* The meld m is still there as m2: the same meld of the same owner, with
\* every card it had and at most one more.
StaysAs(m, m2) ==
    /\ m2.id = m.id /\ m2.type = m.type /\ m2.ownerId = m.ownerId
    /\ \A k \in 1..Len(m.cards) : CountIn(m2.cards, m.cards[k].id) = 1
    /\ Len(m2.cards) \in {Len(m.cards), Len(m.cards) + 1}

\* Every meld of the players ps is still on the table with the players qs.
MeldsKept(ps, qs) ==
    /\ Len(qs) = Len(ps)
    /\ \A i \in 1..Len(ps) :
          /\ qs[i].id = ps[i].id
          /\ Len(qs[i].melds) >= Len(ps[i].melds)
          /\ \A k \in 1..Len(ps[i].melds) : StaysAs(ps[i].melds[k], qs[i].melds[k])

\* The players of ps that lay down in the step to qs have a new meld there.
NewMeldsShown(ps, qs) ==
    \A i \in 1..Len(ps) :
        (qs[i].hasLaidDownPhase /\ ~ps[i].hasLaidDownPhase)
           => Len(qs[i].melds) > Len(ps[i].melds)

\* C26: within a round no step removes a meld from its owner's list or
\* takes a card out of it, the step that ends the round included; a meld
\* only grows, by one card at a time; and the meld a player or a bot lays
\* down in a step is on the table after it.
C26_MeldsStay ==
    [][(gameState = "PLAYING" /\ players # <<>>)
          => MeldsKept(players, players') /\ NewMeldsShown(players, players')]_vars

\* The cards of the deck d of the given type (and colour and value).
CardsOf(d, type) == {k \in 1..Len(d) : d[k].type = type}
NumbersOf(d, color, value) ==
    {k \in CardsOf(d, "NUMBER") : d[k].color = color /\ d[k].value = value}

\* 108 cards with ids all different: each value 1..12 twice in each of the
\* 4 colours, 8 wilds, 4 skips.
Composition(d) ==
    /\ Len(d) = 108
    /\ Cardinality({d[k].id : k \in 1..Len(d)}) = 108
    /\ Cardinality(CardsOf(d, "NUMBER")) = 96
    /\ \A color \in {"RED", "BLUE", "GREEN", "YELLOW"}, value \in 1..12 :
          Cardinality(NumbersOf(d, color, value)) = 2
    /\ Cardinality(CardsOf(d, "WILD")) = 8
    /\ Cardinality(CardsOf(d, "SKIP")) = 4

\* C27: createDeck yields 108 cards with ids all different: 96 NUMBER cards,
\* each value 1..12 twice for each of the 4 colours, 8 WILD cards and 4 SKIP
\* cards; so does the deck a round starts from, in any shuffle.
C27_DeckComposition ==
    deck # <<>> => Composition(SourceDeck) /\ Composition(deck)

\* The deck has been created and shuffled; some card has moved.
C27_Witness ==
    deck # <<>> /\ Len(deck) = Len(SourceDeck) /\ deck # SourceDeck

\* The decks a discard of the current state can find: the deck as it is
\* for a human player, the deck the draw of its turn leaves for a bot.
DecksAtDiscard ==
    LET p == CurrentPlayer(St)
    IN IF p.isHuman THEN {deck}
       ELSE {BotDrawAndMeld(St, p, wantMeld, r).currentDeck :
                wantMeld \in BOOLEAN, r \in DrawStreams}

\* The discards of a card that is not a SKIP and not the last of the hand.
PlainDiscardRuns ==
    {run \in DiscardRuns :
        run.card.type # "SKIP" /\ WithoutId(run.hand, run.card.id) # <<>>}

\* C28: when the current player (index i of n) discards a card that is not
\* a SKIP and keeps a non-empty hand, exactly that card leaves the hand and
\* becomes the top of the discard pile, the turn goes to index (i+1) mod n
\* in turnPhase DRAW, and the deck, all melds, all scores and phase indices
\* and every other player's hand are unchanged.
C28_PlainDiscard ==
    \A run \in PlainDiscardRuns :
        LET n == Len(players)
            i == currentPlayerIndex
            after == run.n
        IN /\ HandHas(run.hand, run.card.id)
           /\ after.players[i + 1].hand = WithoutId(run.hand, run.card.id)
           /\ Len(after.players[i + 1].hand) = Len(run.hand) - 1
           /\ Len(after.discardPile) = Len(discardPile) + 1
           /\ Top(after.discardPile) = run.card
           /\ after.currentPlayerIndex = (i + 1) % n
           /\ after.turnPhase = "DRAW"
           /\ after.deck \in DecksAtDiscard
           /\ Len(after.players) = n
           /\ Melds(after.players) = Melds(players)
           /\ \A j \in 1..n :
                 /\ after.players[j].score = players[j].score
                 /\ after.players[j].phaseIndex = players[j].phaseIndex
                 /\ j # i + 1 => after.players[j].hand = players[j].hand

\* The rosters startRound can be called with in the current state: the
\* players startGame has put together in the lobby, the players of the
\* round that is over when nextRound does not end the game.
RoundRosters ==
    (IF gameState = "LOBBY" /\ ~IsClient(St) THEN {ActivePlayers(St)} ELSE {})
    \cup
    (IF gameState = "ROUND_OVER" /\ isHost /\ nextRound(St, Upd(St), 1).st.gameState # "GAME_OVER"
       THEN {players} ELSE {})

\* The calls of startRound the current state allows, in the scaled game and
\* with the deck and the hand size of the source: the roster passed, the
\* hand size, the size of the new deck and the state the call commits.
RoundStarts ==
    UNION {
      {[roster |-> ps, handSize |-> HAND_SIZE, deckSize |-> Len(createDeck),
        n |-> startRound(St, Upd(St), ps, r).st] : r \in Streams}
      \cup
      {[roster |-> ps, handSize |-> SOURCE_HAND_SIZE, deckSize |-> Len(SourceDeck),
        n |-> SourceRound(St, Upd(St), ps, r).st] : r \in Streams}
      : ps \in RoundRosters}

\* What a round starts with.
RoundStarted(run) ==
    LET ps == run.roster
        after == run.n
        n == Len(ps)
    IN /\ Len(after.players) = n
       /\ \A i \in 1..n :
             /\ after.players[i].id = ps[i].id
             /\ after.players[i].isHuman = ps[i].isHuman
             /\ Len(after.players[i].hand) = run.handSize
             /\ after.players[i].melds = <<>>
             /\ ~after.players[i].hasLaidDownPhase
             /\ ~after.players[i].isSkipped
             /\ after.players[i].score = ps[i].score
             /\ after.players[i].phaseIndex = ps[i].phaseIndex
       /\ Len(after.discardPile) = 1
       /\ Len(after.deck) = run.deckSize - run.handSize * n - 1
       /\ after.currentPlayerIndex = 0
       /\ after.turnPhase = "DRAW"
       /\ after.roundWinnerId = "null"
       /\ after.gameState = "PLAYING"

\* C29: every startRound, of the first round and of each later one, gives
\* the same players in the same order, each with a hand of HAND_SIZE cards,
\* no melds, hasLaidDownPhase and isSkipped false, a discard pile of one
\* card, a deck of (deck size) - HAND_SIZE * n - 1 cards for n players (108
\* and 10 in the source: 67 cards for 4 players), currentPlayerIndex 0,
\* turnPhase DRAW, no round winner, gameState PLAYING, and every player's
\* score and phaseIndex as before the call.
C29_StartRound ==
    /\ \A run \in RoundStarts : RoundStarted(run)
    /\ \A run \in RoundStarts :
          (run.handSize = 10 /\ Len(run.roster) = 4)
             => Len(run.n.deck) = 67 /\ Len(run.n.players[1].hand) = 10

\* A later round has started: a player carries a score and a player carries
\* a completed phase into it, and nobody has played yet.
C29_Witness ==
    /\ gameState = "PLAYING" /\ turnPhase = "DRAW" /\ currentPlayerIndex = 0
    /\ Len(discardPile) = 1
    /\ Len(deck) = Len(createDeck) - HAND_SIZE * Len(players) - 1
    /\ \E i \in 1..Len(players) : players[i].score > 0
    /\ \E i \in 1..Len(players) : players[i].phaseIndex > 0
    /\ \A i \in 1..Len(players) :
          /\ Len(players[i].hand) = HAND_SIZE
          /\ players[i].melds = <<>>
          /\ ~players[i].hasLaidDownPhase

\* The ids of the cards on the discard pile and in the melds on the table.
PlayedIds ==
    {discardPile[k].id : k \in 1..Len(discardPile)}
    \cup UNION {{m.cards[k].id : k \in 1..Len(m.cards)} : m \in AllMelds(players)}

\* C30: whenever gameState is ROUND_OVER the round winner's hand is empty,
\* and the card whose discard or hit ended the round is on the discard pile
\* or in the meld only: the winner holds no card that is also there.
C30_WinnerHandEmpty ==
    gameState = "ROUND_OVER" =>
        \A i \in 1..Len(players) :
            players[i].id = roundWinnerId =>
                /\ players[i].hand = <<>>
                /\ \A k \in 1..Len(players[i].hand) :
                      players[i].hand[k] = UNDEF \/ players[i].hand[k].id \notin PlayedIds

\* C31: round-end scoring is applied once per round: while gameState is
\* ROUND_OVER or GAME_OVER no DRAW, DISCARD, MELD or HIT, local or from a
\* client, changes a hand, a meld, a score, a phaseIndex, the deck or the
\* discard pile (a step that reorders a hand is not one of these).
C31_NoPlayAfterRoundEnd ==
    [][(/\ gameState \in {"ROUND_OVER", "GAME_OVER"}
        /\ gameState' = gameState
        /\ reorders' = reorders)
          => /\ players' = players
             /\ deck' = deck
             /\ discardPile' = discardPile]_vars

\* The current render with the player at turn on phase k: the phase the
\* player has reached in the rounds before this one.
OnPhase(k) == [St EXCEPT !.players[currentPlayerIndex + 1].phaseIndex = k]

\* The player at turn holds one card and nothing else: its discard ends the
\* round.
LastCardHeld ==
    /\ Playing /\ players # <<>>
    /\ Len(CurrentPlayer(St).hand) = 1
    /\ ~HasHole(CurrentPlayer(St).hand)

\* The render after the player at turn, on phase k, has discarded its last
\* card, and the render after the host has pressed Next Round on that.
RoundEndOn(k) ==
    LET s == OnPhase(k)
    IN Rendered(performDiscard(s, Upd(s), CurrentPlayer(s), CurrentPlayer(s).hand[1]))
AfterRoundOn(k) ==
    LET s == RoundEndOn(k)
    IN Rendered(nextRound(s, Upd(s), 1))

\* C32: the game is over after a round only if some player laid down the
\* melds of the last phase in that round (was on the last phase when it
\* laid down); laying down the phase before the last does not end the game.
C32_GameOverOnlyAfterLastPhase ==
    LastCardHeld =>
        \A k \in 0..(Len(phases) - 1) :
            AfterRoundOn(k).gameState = "GAME_OVER" =>
                \E i \in 1..Len(players) :
                    /\ OnPhase(k).players[i].hasLaidDownPhase
                    /\ OnPhase(k).players[i].phaseIndex = Len(phases) - 1

\* The reorders that can run in the current state: the drag on this
\* instance's own hand and the REORDER message of the client at turn, for
\* every pair of indices from one below to one above the hand's range.  One
\* record per run: the index of the player, its hand, the indices and the
\* render the handler commits.
ReorderRuns ==
    IF players = <<>> THEN {}
    ELSE
    LET Run(idx, f, t, n) ==
            [idx |-> idx, hand |-> players[idx + 1].hand, from |-> f, to |-> t, n |-> n]
        Indices(hand) == (0 - 1)..Len(hand)
        me == FindIndex(players, MyId(St))
    IN (IF Playing /\ me # 0 - 1
          THEN {Run(me, f, t, Rendered(handleReorderHand(St, Upd(St), f, t))) :
                   f \in Indices(players[me + 1].hand),
                   t \in Indices(players[me + 1].hand)}
          ELSE {})
       \cup
       UNION {{Run(currentPlayerIndex, f, t,
                   Rendered(processHostAction(St, Upd(St),
                       [Action("REORDER", id) EXCEPT !.fromIndex = f, !.toIndex = t],
                       now, 1))) :
                  f \in Indices(CurrentPlayer(St).hand),
                  t \in Indices(CurrentPlayer(St).hand)} : id \in CurrentClients}

\* The hands a and b hold the same cards: same length, every entry as often
\* in one as in the other, and no empty entry.
SameCards(a, b) ==
    /\ Len(a) = Len(b)
    /\ ~HasHole(a) /\ ~HasHole(b)
    /\ \A k \in 1..Len(a) :
          Cardinality({j \in 1..Len(a) : a[j] = a[k]})
             = Cardinality({j \in 1..Len(b) : b[j] = a[k]})

\* C33: a reorder changes only the order of the acting player's hand, for
\* every fromIndex and toIndex, those outside the hand's range included: the
\* hand holds the same cards afterwards and nothing else changes.
C33_ReorderKeepsCards ==
    \A run \in ReorderRuns :
        ~HasHole(run.hand) =>
            /\ Len(run.n.players) = Len(players)
            /\ SameCards(run.n.players[run.idx + 1].hand, run.hand)
            /\ [run.n EXCEPT !.players[run.idx + 1].hand = run.hand] = Rendered(Upd(St))

\* C34: no meld of kind SET or RUN on the table holds a SKIP card, after
\* any sequence of lay-downs and hits.
C34_NoSkipInMeld ==
    players # <<>> =>
        \A m \in AllMelds(players) :
            m.type \in {"SET", "RUN"} =>
                \A k \in 1..Len(m.cards) : m.cards[k].type # "SKIP"

\* C35: during a round a player, human or bot, whose hasLaidDownPhase is
\* true owns at least one meld on the table, and a player whose
\* hasLaidDownPhase is false owns none.
C35_LaidDownHasMeld ==
    Playing =>
        \A i \in 1..Len(players) :
            players[i].hasLaidDownPhase <=> players[i].melds # <<>>

\* C36: whenever gameState is PLAYING and turnPhase is DRAW the discard
\* pile is not empty, after any sequence of draws from the discard pile,
\* discards, recycles and bot turns.
C36_PileAtDraw ==
    (Playing /\ turnPhase = "DRAW") => discardPile # <<>>

\* The first player has taken the only card of the discard pile and has
\* discarded: the deck is as dealt, the pile holds one card again and the
\* second player is to draw.
C36_Witness ==
    /\ Playing /\ turnPhase = "DRAW" /\ currentPlayerIndex = 1
    /\ Len(deck) = Len(createDeck) - HAND_SIZE * Len(players) - 1
    /\ Len(discardPile) = 1
    /\ Len(players[1].hand) = HAND_SIZE

\* The handler runs of the host in the current state, each with the render
\* it leaves and the STATE_UPDATE messages it sends, in the order they are
\* sent: start of the game, next round, the host's own draw and discard, an
\* ACTION message of the client at turn, one second of the countdown (with
\* the auto-play at 0) and a bot turn.
HostSends ==
    IF ~isHost THEN {}
    ELSE
    LET Sent(pre, s, u) ==
            LET c == HostCommit(s, u) IN [h |-> c.h, msgs |-> pre \o c.msgs]
        s1 == Rendered(countdown(St, Upd(St)))
    IN (IF gameState = "LOBBY"
          THEN {Sent(<<>>, St, startGame(St, Upd(St), r)) : r \in Streams} ELSE {})
       \cup
       (IF gameState = "ROUND_OVER"
          THEN {Sent(<<>>, St, nextRound(St, Upd(St), r)) : r \in Streams} ELSE {})
       \cup
       (IF Playing /\ isMyTurn /\ turnPhase = "DRAW"
          THEN {Sent(<<>>, St, handleDraw(St, Upd(St), d, r)) :
                   d \in {b \in BOOLEAN : b => (discardPile # <<>>
                                                /\ Top(discardPile).type # "SKIP")},
                   r \in DrawStreams}
          ELSE {})
       \cup
       (IF Playing /\ isMyTurn /\ turnPhase \in {"DISCARD", "ACTION"}
          THEN {Sent(<<>>, St, handleDiscard(St, Upd(St), {id})) :
                   id \in HandIds(myPlayer.hand)}
          ELSE {})
       \cup
       (IF players # <<>>
          THEN UNION {{Sent(<<>>, St, processHostAction(St, Upd(St), action, now, r)) :
                          action \in FullPayloads(id), r \in DrawStreams} :
                      id \in CurrentClients}
          ELSE {})
       \cup
       (IF Playing /\ turnDuration > 0 /\ timeLeft > 0
          THEN {Sent(broadcastEffect(St, s1, {}), s1, timeoutEffect(s1, Upd(s1), r)) :
                   r \in DrawStreams}
          ELSE {})
       \cup
       (IF Playing /\ ~CurrentPlayer(St).isHuman
          THEN {Sent(<<>>, St, botEffect(St, Upd(St), wantMeld, now, r)) :
                   wantMeld \in BOOLEAN, r \in DrawStreams}
          ELSE {})

\* A client's mirror of the host's render s, and the mirror after the
\* client has applied the messages msgs in order.
MirrorOf(s) ==
    [s EXCEPT !.isHost = FALSE, !.deck = [i \in 1..Len(s.deck) |-> DummyCard]]
RECURSIVE AppliedAll(_, _)
AppliedAll(s, msgs) ==
    IF msgs = <<>> THEN s
    ELSE AppliedAll(Applied(s, Head(msgs)), Tail(msgs))

\* The mirror m holds the host's render h in every field of the broadcast.
InSync(m, h) ==
    /\ m.players = h.players
    /\ Len(m.deck) = Len(h.deck)
    /\ m.discardPile = h.discardPile
    /\ m.currentPlayerIndex = h.currentPlayerIndex
    /\ m.turnPhase = h.turnPhase
    /\ m.gameState = h.gameState
    /\ m.roundWinnerId = h.roundWinnerId
    /\ m.timeLeft = h.timeLeft

\* C37: every game STATE_UPDATE the host sends carries the host's state as
\* of the moment of sending, the delayed broadcast of startRound included:
\* the last message of a handler run carries the render the run leaves, and
\* a mirror that was in sync before the run is in sync with the host again
\* once it has applied the messages of the run.
C37_BroadcastCarriesHostState ==
    \A c \in HostSends :
        /\ c.msgs # <<>> =>
              LET data == c.msgs[Len(c.msgs)].payload
              IN /\ data.players = c.h.players
                 /\ data.deckCount = Len(c.h.deck)
                 /\ data.discardPile = c.h.discardPile
                 /\ data.currentPlayerIndex = c.h.currentPlayerIndex
                 /\ data.turnPhase = c.h.turnPhase
                 /\ data.gameState = c.h.gameState
                 /\ data.roundWinnerId = c.h.roundWinnerId
                 /\ data.timeLeft = c.h.timeLeft
        /\ (gameState # "LOBBY" \/ c.msgs # <<>>)
              => InSync(AppliedAll(MirrorOf(St), c.msgs), c.h)

(* ----------------------- Progress under the timer ---------------------- *)
\* The countdown's interval can fire: a round is played with the turn timer
\* on and the countdown above 0 (a run of a handler that changes the state
\* is one of at most MaxSteps).  A tick always changes timeLeft.
TickEnabled ==
    /\ gameState = "PLAYING" /\ turnDuration > 0 /\ timeLeft > 0
    /\ steps < MaxSteps

\* The bot effect's timer can fire and change the state: a bot is at turn.
BotTurnEnabled ==
    /\ gameState = "PLAYING"
    /\ ~CurrentPlayer(St).isHuman
    /\ steps < MaxSteps
    /\ \E wantMeld \in BOOLEAN, r \in DrawStreams :
          Rendered(botPlayTurn(St, Upd(St), CurrentPlayer(St), wantMeld, now, r)) # St

\* Weak fairness of the two timers, WF_vars(Tick) and WF_vars(BotTurn) with
\* ENABLED written out: setInterval fires every second while the countdown
\* effect is mounted, and the bot effect's setTimeout fires 1500 ms after
\* the last change of its dependencies.
FairTick == <>[]TickEnabled => []<><<Tick>>_vars
FairBotTurn == <>[]BotTurnEnabled => []<><<BotTurn>>_vars

\* The game with its two timers running.  What the players do, and whether
\* they do anything, is left open.
SpecTimed == Init /\ [][Next]_vars /\ FairTick /\ FairBotTurn

\* A draw can be made: the deck has a card or the discard pile can be
\* recycled.
DrawPossible == Len(deck) > 0 \/ Len(discardPile) >= 2

\* The turn of the player at index i is on, with the turn timer on.
TurnOf(i) ==
    gameState = "PLAYING" /\ turnDuration > 0 /\ currentPlayerIndex = i

\* With the turn timer on and a draw possible, the turn of the player at
\* index i ends - the turn moves on or the round ends - whatever the human
\* players do or leave undone (the behaviours of the model end after
\* MaxSteps handler runs).
TurnEndsUnderTimers ==
    \A i \in 0..(MAX_PLAYERS - 1) :
        (TurnOf(i) /\ DrawPossible)
            ~> (~TurnOf(i) \/ ~DrawPossible \/ steps >= MaxSteps)

\* The render after the countdown's interval has fired in the current state
\* (stream r for a recycled deck): the timeout effect has run if the
\* countdown reached 0, and then the reset effect.
TickOutcome(r) ==
    LET s1 == [St EXCEPT !.timeLeft = IF timeLeft <= 1 THEN 0 ELSE timeLeft - 1]
        n == IF s1.timeLeft = 0 THEN Rendered(handleTimeout(s1, Upd(s1), r))
                                ELSE s1
    IN timerReset(St, n)

\* The render after the bot effect's timer has fired in the current state.
BotOutcome(wantMeld, r) ==
    timerReset(St, Rendered(botPlayTurn(St, Upd(St), CurrentPlayer(St),
                                        wantMeld, now, r)))

\* The turn of the current state has ended in render n: another player is
\* at turn or the round is over.
TurnEnded(n) ==
    n.currentPlayerIndex # currentPlayerIndex \/ n.gameState # "PLAYING"

\* Render n is nearer to the end of the turn than the current state: the
\* turn has ended, or the draw has been made and the countdown runs again,
\* or the countdown runs and is lower.
NearerTurnEnd(n) ==
    \/ TurnEnded(n)
    \/ turnPhase = "DRAW" /\ n.turnPhase = "ACTION" /\ n.timeLeft = turnDuration
    \/ n.turnPhase = turnPhase /\ 0 < n.timeLeft /\ n.timeLeft < timeLeft

\* C38: while a round is played with the turn timer on and a draw is
\* possible, the timers alone end the turn: on a human player's turn the
\* countdown is above 0 and the second that passes brings the turn nearer
\* to its end (it draws at 0 in the DRAW phase and discards at 0 in the
\* ACTION phase); on a bot's turn the bot's timer ends the turn.
C38_TimersEndTurn ==
    (gameState = "PLAYING" /\ turnDuration > 0 /\ DrawPossible /\ steps < MaxSteps)
        => IF CurrentPlayer(St).isHuman
             THEN /\ timeLeft > 0
                  /\ \A r \in DrawStreams : NearerTurnEnd(TickOutcome(r))
             ELSE \A wantMeld \in BOOLEAN, r \in DrawStreams :
                     TurnEnded(BotOutcome(wantMeld, r))

====
